---- MODULE Spec2Model ----
(***************************************************************************)
(* A model of SISPPEO's mask composition (sisppeo/products/l3.py,          *)
(* sisppeo/products/timeseries.py) and of the Sentinel-2 band extraction   *)
(* and resolution normalisation (sisppeo/readers/S2_ESA.py, S2_THEIA.py,   *)
(* sisppeo/utils/readers.py), of the GRS and C2RCC readers                 *)
(* (sisppeo/readers/GRS.py, C2RCC.py), of ProductBuilder and its staged    *)
(* calls (sisppeo/builders.py), of the pixel coordinates of a product      *)
(* (sisppeo/utils/products.py) and of the batch calls of sisppeo/main.py.  *)
(*                                                                         *)
(* Rasters are 2-D arrays arr[i][j], i the row (y index, north to south),  *)
(* j the column (x index, west to east); the time axis of the datasets has *)
(* length one and is left out.  Coordinates are integers (metres).         *)
(***************************************************************************)
EXTENDS Integers, Sequences, FiniteSets, TLC

\* np.nan: the "no data" value of every float array.
NaN == -1

\* None, as the value of an optional argument
None == 0

\* The pixel size (m) shared by the products given to the mask algebra.
Res == 10

\* Number of columns / rows of the small scene the masked products lie in.
NX == 3
NY == 2

\* How many times one product is masked in place.
MaxMaskings == 1

VARIABLES
    l3_algo,      \* the product (its dataset) the caller holds and passes in
    l3_masks,     \* the mask products the caller holds
    returned,     \* <<>> for None, <<p>> for the product returned
    call,         \* <<>> or <<the arguments of the last masking call>>
    pre,          \* <<>> or <<the caller's product as passed to the last call>>
    keep,         \* <<>> or <<the boolean field "mask" of the last call>>
    kind,         \* the class of the products: L3 products or TimeSeries
    nmasked       \* how many times the caller's product was masked in place

maskVars == <<l3_algo, l3_masks, returned, call, pre, keep, kind, nmasked>>

\* The state of one Sentinel-2 reader and of its extract_bands() call.
VARIABLES
    product_type,       \* "S2_ESA", "S2_THEIA", "GRS" or "C2RCC": the reader
    request,            \* the arguments given to the constructor
    inputs,             \* self._inputs
    requested_bands,    \* the bands extract_bands has still to extract
    intermediate_data,  \* self._intermediate_data: x and y
    xy_bbox,            \* <<>> or <<[x0, y0, x1, y1]>> of the first band
    data,               \* the band arrays extracted so far, in order
    window,             \* <<>> or <<the ij_bbox resolved for the session,
                        \* with the height and width of its raster>>
    handles,            \* the product handles that are open
    pc                  \* where the reader is

readVars == <<product_type, request, inputs, requested_bands,
              intermediate_data, xy_bbox, data, window, handles, pc>>

\* Direct calls of the resampling functions of sisppeo.utils.readers.
VARIABLES
    im,                 \* the array at hand: its shape and last filter
    resamplings         \* the calls made so far, with their array and result

resampleVars == <<im, resamplings>>

\* The ProductBuilder that runs a reader, when there is one.
VARIABLES
    builder             \* <<>> or <<the resolutions extract_data was given
                        \* and self._out_resolution>>

builderVars == <<builder>>

\* One call of create_batch_l3algoproducts or create_batch_l3maskproducts.
VARIABLES
    batch_fn,           \* the function called
    save,               \* its argument save
    batch_args,         \* its other arguments
    cpu_count,          \* psutil.cpu_count(logical=False)
    outcome,            \* per input product, "done" if its reader extracts
                        \* the bands and "failed" if it raises
    pool,               \* <<>> or <<num_cpus given to ray.init>>
    submitted,          \* per submitted task, its arguments
    futures,            \* per submitted task: "pending", "running", "done"
                        \* or "failed"
    results,            \* per submitted task: <<>> or <<its products>>
    ended,              \* the tasks that ended, in the order they ended
    batch_res,          \* <<>> or <<the list ray.get returned>>
    lst_ts,             \* <<>> or <<the list of TimeSeries>>
    saved,              \* the input products whose products are on disk
    batch_pc            \* where the call is

batchVars == <<batch_fn, save, batch_args, cpu_count, outcome, pool,
               submitted, futures, results, ended, batch_res, lst_ts, saved,
               batch_pc>>

\* A ProductBuilder called method by method, and the single-product
\* functions of sisppeo.main.
VARIABLES
    pb,                 \* the fields of the builder
    pb_call,            \* <<>> or <<the last call: what it raised or returned>>
    pb_ncalls           \* the number of calls made

stagedVars == <<pb, pb_call, pb_ncalls>>

\* Calls of CoordinatesMixin.xy and CoordinatesMixin.index on one product.
VARIABLES
    grid,               \* <<>> or <<the x and y coordinates of the product>>
    coord_call          \* the calls made: what each raised or returned

coordVars == <<grid, coord_call>>

vars == <<maskVars, readVars, resampleVars, builderVars, batchVars,
          stagedVars, coordVars>>

\* What the actions of one part leave alone.
notMaskVars ==
    <<readVars, resampleVars, builderVars, batchVars, stagedVars, coordVars>>
notReadVars ==
    <<maskVars, resampleVars, builderVars, batchVars, stagedVars, coordVars>>
notResampleVars ==
    <<maskVars, readVars, builderVars, batchVars, stagedVars, coordVars>>
notBatchVars ==
    <<maskVars, readVars, resampleVars, builderVars, stagedVars, coordVars>>
notStagedVars ==
    <<maskVars, readVars, resampleVars, builderVars, batchVars, coordVars>>
notCoordVars ==
    <<maskVars, readVars, resampleVars, builderVars, batchVars, stagedVars>>

\* No reader and no masking session, for the runs that do not use them.
NoReader ==
    /\ product_type = "none"
    /\ request = <<>>
    /\ inputs = <<>>
    /\ requested_bands = <<>>
    /\ intermediate_data = <<>>
    /\ xy_bbox = <<>>
    /\ data = <<>>
    /\ window = <<>>
    /\ handles = {}
    /\ pc = "none"

NoMasking ==
    /\ l3_algo = <<>>
    /\ l3_masks = <<>>
    /\ returned = <<>>
    /\ call = <<>>
    /\ pre = <<>>
    /\ keep = <<>>
    /\ kind = "none"
    /\ nmasked = 0

NoResampling ==
    /\ im = <<>>
    /\ resamplings = <<>>

\* The parts a run of one part does not use.
NoBuilder == builder = <<>>

NoBatch ==
    /\ batch_fn = "none"
    /\ save = FALSE
    /\ batch_args = <<>>
    /\ cpu_count = None
    /\ outcome = <<>>
    /\ pool = <<>>
    /\ submitted = <<>>
    /\ futures = <<>>
    /\ results = <<>>
    /\ ended = <<>>
    /\ batch_res = <<>>
    /\ lst_ts = <<>>
    /\ saved = {}
    /\ batch_pc = "none"

NoStaged ==
    /\ pb = <<>>
    /\ pb_call = <<>>
    /\ pb_ncalls = 0

NoCoords ==
    /\ grid = <<>>
    /\ coord_call = <<>>

OnlyMasking ==
    NoReader /\ NoResampling /\ NoBuilder /\ NoBatch /\ NoStaged /\ NoCoords
OnlyReader == NoMasking /\ NoResampling /\ NoBatch /\ NoStaged /\ NoCoords
OnlyResampling ==
    NoMasking /\ NoReader /\ NoBuilder /\ NoBatch /\ NoStaged /\ NoCoords
OnlyBatch ==
    NoMasking /\ NoReader /\ NoResampling /\ NoBuilder /\ NoStaged /\ NoCoords
OnlyStaged ==
    NoMasking /\ NoReader /\ NoResampling /\ NoBuilder /\ NoBatch /\ NoCoords
OnlyCoords ==
    NoMasking /\ NoReader /\ NoResampling /\ NoBuilder /\ NoBatch /\ NoStaged

----------------------------------------------------------------------------
(* Small helpers over coordinates and arrays.                              *)

MinOf(S) == CHOOSE v \in S : \A w \in S : v <= w
MaxOf(S) == CHOOSE v \in S : \A w \in S : v >= w
Values(c) == {c[i] : i \in DOMAIN c}

\* A sequence given by a function over 1..n, with its entries computed.
AsSeq(f) == <<>> \o f

\* x runs west to east, y north to south, both at pixel centres.
XCoords(first, n) == AsSeq([k \in 1..n |-> first + (k - 1) * Res])
YCoords(first, n) == AsSeq([k \in 1..n |-> first - (k - 1) * Res])

\* Column / row number of a coordinate in the scene.
Cell(c) == c \div Res

\* The values a mask or a variable of a target takes, by pattern name.
PatVal(pat, cx, cy) ==
    CASE pat = "zeros"    -> 0
      [] pat = "ones"     -> 1
      [] pat = "diag"     -> IF (Cell(cx) + Cell(cy)) % 2 = 1 THEN 1 ELSE 0
      [] pat = "corner"   -> IF Cell(cx) = 1 /\ Cell(cy) = 1 THEN 1 ELSE 0
      [] pat = "full"     -> 2 + (Cell(cx) % 2)
      [] pat = "holes"    -> IF Cell(cx) = 1 /\ Cell(cy) = 0 THEN NaN ELSE 2
      [] pat = "anc"      -> 7

\* The array of a pattern over the grid (xc, yc).
Arr(xc, yc, pat) ==
    AsSeq([i \in 1..Len(yc) |->
             AsSeq([j \in 1..Len(xc) |-> PatVal(pat, xc[j], yc[i])])])

\* s.title is "<name> from <product_type>"; .split(' ', 1)[0] is the name.
Title(name) == <<name, "from", "S2_ESA_L2A">>
TitleName(title) == title[1]

NoAttrs == [cloudmask |-> <<>>, watermask |-> <<>>, masks |-> <<>>]

\* An L3AlgoProduct (or a TimeSeries of one date): the variable named after
\* the algorithm and one ancillary variable on the same grid.
MkAlgo(x0, nx, y0, ny, pat) ==
    LET xc == XCoords(x0, nx)
        yc == YCoords(y0, ny)
    IN [x |-> xc, y |-> yc,
        vars |-> [v \in {"ndwi", "ndwi_aux"} |->
                    IF v = "ndwi" THEN Arr(xc, yc, pat)
                    ELSE Arr(xc, yc, "anc")],
        title |-> Title("ndwi"), version |-> "", attrs |-> NoAttrs]

\* An L3MaskProduct: one variable named after the mask.
MkMask(x0, nx, y0, ny, pat, name) ==
    LET xc == XCoords(x0, nx)
        yc == YCoords(y0, ny)
    IN [x |-> xc, y |-> yc,
        vars |-> [v \in {name} |-> Arr(xc, yc, pat)],
        title |-> Title(name), version |-> "1.0", attrs |-> NoAttrs]

----------------------------------------------------------------------------
(* mask_product / mask_time_series.                                        *)

\* deepcopy left out: the same object is handed back.
deepcopy_alias(heap, ref) == [heap |-> heap, ref |-> ref]

\* Objects live in a heap, ref |-> dataset; "caller" is the object passed in.
\* deepcopy allocates a fresh object holding an equal dataset.
deepcopy(heap, ref) ==
    [heap |-> [r \in DOMAIN heap \cup {"copy"} |->
                 IF r = "copy" THEN heap[ref] ELSE heap[r]],
     ref  |-> "copy"]

\* str.upper() on the polarity tags in use.
Upper(t) ==
    CASE t = "in"  -> "IN"
      [] t = "out" -> "OUT"
      [] OTHER     -> t

\* The shared bounding box: the intersection of all extents.
shared_bbox(algo, masks) ==
    [x_min |-> MaxOf({MinOf(Values(masks[k].x)) : k \in DOMAIN masks}
                     \cup {MinOf(Values(algo.x))}),
     x_max |-> MinOf({MaxOf(Values(masks[k].x)) : k \in DOMAIN masks}
                     \cup {MaxOf(Values(algo.x))}),
     y_min |-> MaxOf({MinOf(Values(masks[k].y)) : k \in DOMAIN masks}
                     \cup {MinOf(Values(algo.y))}),
     y_max |-> MinOf({MaxOf(Values(masks[k].y)) : k \in DOMAIN masks}
                     \cup {MaxOf(Values(algo.y))})]

\* A slice that leaves its stop label out, as positional slices do.
sel_x_halfopen(c, start, stop) ==
    {j \in DOMAIN c : start <= c[j] /\ c[j] < stop}

\* .sel(x=slice(start, stop)): the labels from start to stop, both included,
\* along an increasing index; for y the index is decreasing.
sel_x(c, start, stop) == {j \in DOMAIN c : start <= c[j] /\ c[j] <= stop}
sel_y(c, start, stop) == {i \in DOMAIN c : start >= c[i] /\ c[i] >= stop}

\* The entries first..first+n-1 of s, in order.
Pick(s, first, n) == AsSeq([k \in 1..n |-> s[first + k - 1]])

\* dataset.sel(x=slice(x_min, x_max), y=slice(y_max, y_min))
clip(ds, bb) ==
    LET J == sel_x(ds.x, bb.x_min, bb.x_max)
        I == sel_y(ds.y, bb.y_max, bb.y_min)
        w == Cardinality(J)
        h == Cardinality(I)
        j0 == IF w = 0 THEN 1 ELSE MinOf(J)
        i0 == IF h = 0 THEN 1 ELSE MinOf(I)
    IN [ds EXCEPT
          !.x = Pick(ds.x, j0, w),
          !.y = Pick(ds.y, i0, h),
          !.vars = [v \in DOMAIN ds.vars |->
                      AsSeq([i \in 1..h |-> AsSeq([j \in 1..w |->
                         ds.vars[v][i0 + i - 1][j0 + j - 1]])])]]

\* [i for i, mask_type in enumerate(lst_mask_type) if mask_type.upper() == tag]
idx_of(lst_mask_type, tag) ==
    LET Test(i) == Upper(lst_mask_type[i]) = tag
    IN SelectSeq([i \in 1..Len(lst_mask_type) |-> i], Test)

\* The first mask of the list alone, in place of the sum.
np_sum_first(arr_masks, idx, i, j) ==
    IF idx = <<>> THEN 0 ELSE arr_masks[Head(idx)][i][j]

\* np.sum([arr_masks[i] for i in idx], axis=0) at pixel (i, j); 0 for no mask.
RECURSIVE np_sum(_, _, _, _)
np_sum(arr_masks, idx, i, j) ==
    IF idx = <<>> THEN 0
    ELSE arr_masks[Head(idx)][i][j] + np_sum(arr_masks, Tail(idx), i, j)

\* The keep field with "|" in place of "&" when both polarities are listed.
final_mask_or(arr_masks, lst_mask_type, h, w) ==
    LET idx_in  == idx_of(lst_mask_type, "IN")
        idx_out == idx_of(lst_mask_type, "OUT")
    IN AsSeq([i \in 1..h |-> AsSeq([j \in 1..w |->
          IF idx_in = <<>> THEN np_sum(arr_masks, idx_out, i, j) = 0
          ELSE IF idx_out = <<>> THEN np_sum(arr_masks, idx_in, i, j) > 0
          ELSE np_sum(arr_masks, idx_in, i, j) > 0
               \/ np_sum(arr_masks, idx_out, i, j) = 0])])

\* The keep field, broadcast to the shape (h, w) of the clipped target.
final_mask(arr_masks, lst_mask_type, h, w) ==
    LET idx_in  == idx_of(lst_mask_type, "IN")
        idx_out == idx_of(lst_mask_type, "OUT")
    IN AsSeq([i \in 1..h |-> AsSeq([j \in 1..w |->
          IF idx_in = <<>> THEN np_sum(arr_masks, idx_out, i, j) = 0
          ELSE IF idx_out = <<>> THEN np_sum(arr_masks, idx_in, i, j) > 0
          ELSE np_sum(arr_masks, idx_in, i, j) > 0
               /\ np_sum(arr_masks, idx_out, i, j) = 0])])

\* np.where with its two branches swapped.
np_where_swapped(mask, arr) ==
    AsSeq([i \in DOMAIN arr |-> AsSeq([j \in DOMAIN arr[i] |->
        IF mask[i][j] THEN NaN ELSE arr[i][j]])])

\* np.where(mask, arr, np.nan)
np_where(mask, arr) ==
    AsSeq([i \in DOMAIN arr |-> AsSeq([j \in DOMAIN arr[i] |->
        IF mask[i][j] THEN arr[i][j] ELSE NaN])])

\* The loop storing the masks' names: the two built-in masks go to their own
\* attribute, the others are collected in a list.
RECURSIVE store_names(_, _, _, _)
store_names(attrs, masks, lst_mask_type, acc) ==
    IF masks = <<>> \/ lst_mask_type = <<>>
    THEN IF acc # <<>> THEN [attrs EXCEPT !.masks = acc] ELSE attrs
    ELSE LET name == TitleName(Head(masks).title)
             entry == <<name, Head(masks).version, Head(lst_mask_type)>>
         IN IF name = "s2cloudless"
            THEN store_names([attrs EXCEPT !.cloudmask = <<entry>>],
                             Tail(masks), Tail(lst_mask_type), acc)
            ELSE IF name = "waterdetect"
            THEN store_names([attrs EXCEPT !.watermask = <<entry>>],
                             Tail(masks), Tail(lst_mask_type), acc)
            ELSE store_names(attrs, Tail(masks), Tail(lst_mask_type),
                             Append(acc, <<name, Head(lst_mask_type)>>))

\* The variables mask_product blanks: the one named after the algorithm.
l3_masked_vars(ds) == {TitleName(ds.title)}

\* The variables mask_time_series blanks: TimeSeries.data_vars.
ts_masked_vars(ds) == DOMAIN ds.vars \ {"crs", "product_metadata"}

\* The body shared by mask_product and mask_time_series, from the bounding
\* box to the stored names; target is the ref of the object written to.
mask_body(heap, target, masks, lst_mask_type, masked_vars) ==
    LET bb == shared_bbox(heap[target], masks)
        arr_masks == AsSeq([k \in DOMAIN masks |->
                        clip(masks[k], bb).vars[TitleName(masks[k].title)]])
        clipped == clip(heap[target], bb)
        mask == final_mask(arr_masks, lst_mask_type,
                           Len(clipped.y), Len(clipped.x))
        blanked == [clipped EXCEPT
                      !.vars = [v \in DOMAIN clipped.vars |->
                                  IF v \in masked_vars
                                  THEN np_where(mask, clipped.vars[v])
                                  ELSE clipped.vars[v]]]
        named == [blanked EXCEPT
                    !.attrs = store_names(blanked.attrs, masks,
                                          lst_mask_type, <<>>)]
    IN [heap |-> [heap EXCEPT ![target] = named], mask |-> mask]

mask_product(l3_algo_, masks, lst_mask_type, inplace) ==
    LET heap0 == [r \in {"caller"} |-> l3_algo_]
        cp == IF ~inplace THEN deepcopy(heap0, "caller")
              ELSE [heap |-> heap0, ref |-> "caller"]
        out == mask_body(cp.heap, cp.ref, masks, lst_mask_type,
                         l3_masked_vars(cp.heap[cp.ref]))
    IN [caller |-> out.heap["caller"],
        ret    |-> IF ~inplace THEN <<out.heap[cp.ref]>> ELSE <<>>,
        mask   |-> out.mask]

mask_time_series(ts_algo, masks, lst_mask_type, inplace) ==
    LET heap0 == [r \in {"caller"} |-> ts_algo]
        cp == IF ~inplace THEN deepcopy(heap0, "caller")
              ELSE [heap |-> heap0, ref |-> "caller"]
        out == mask_body(cp.heap, cp.ref, masks, lst_mask_type,
                         ts_masked_vars(cp.heap[cp.ref]))
    IN [caller |-> out.heap["caller"],
        ret    |-> IF ~inplace THEN <<out.heap[cp.ref]>> ELSE <<>>,
        mask   |-> out.mask]

----------------------------------------------------------------------------
(* The masking sessions: the products a caller holds, and the calls.       *)

MaskNames == {<<"s2cloudless", "s2cloudless">>, <<"landmask", "lakes">>,
              <<"s2cloudless", "waterdetect">>}
MaskTypes == {"IN", "OUT"}

\* Targets of the small scene: its two west columns, or all of it with
\* pixels that hold no data.
SmallTargets ==
    {MkAlgo(0, 2, (NY - 1) * Res, NY, "full"),
     MkAlgo(0, NX, (NY - 1) * Res, NY, "holes")}

\* Masks of the small scene.  The first one covers the two west columns;
\* the second one covers them too, or the columns east of the first one on
\* the rows north of the last one.
SmallMasks(names) ==
    {MkMask(0, 2, (NY - 1) * Res, NY, pat, names[1]) :
        pat \in {"diag", "ones"}}
    \X ({MkMask(0, 2, (NY - 1) * Res, NY, "corner", names[2])}
        \cup {MkMask(Res, NX - 1, (NY - 1) * Res, NY - 1, "ones", names[2])})

\* The scene x in [0, 100], y in [0, 100] and masks over x in [20, 120],
\* y in [-10, 90].
WideTarget == MkAlgo(0, 11, 100, 11, "full")
WideMasks == <<MkMask(20, 11, 90, 11, "diag", "landmask"),
               MkMask(20, 11, 90, 11, "ones", "lakes")>>

\* The lists of masks a call can pass, as indexes into l3_masks.
MaskLists == {<<>>, <<1>>, <<2>>, <<1, 2>>, <<2, 1>>}

InitMask ==
    /\ kind \in {"L3AlgoProduct", "TimeSeries"}
    /\ \/ /\ l3_algo \in SmallTargets
          /\ \E names \in MaskNames : l3_masks \in SmallMasks(names)
       \/ /\ l3_algo = WideTarget
          /\ l3_masks = WideMasks
    /\ returned = <<>>
    /\ call = <<>>
    /\ pre = <<>>
    /\ keep = <<>>
    /\ nmasked = 0
    /\ OnlyMasking

\* A session masks the caller's product in place at most MaxMaskings times
\* and ends with the first call that returns a masked copy: such a call
\* leaves the caller's objects as they were, so the calls that could follow
\* it are the calls that could have been made in its place.
\* mask_product(l3_algo, [l3_masks[k] for k in lst], lst_mask_type, inplace)
MaskProduct(lst, lst_mask_type, inplace) ==
    LET masks == [k \in DOMAIN lst |-> l3_masks[lst[k]]]
        out == mask_product(l3_algo, masks, lst_mask_type, inplace)
    IN /\ kind = "L3AlgoProduct"
       /\ returned = <<>>
       /\ inplace => nmasked < MaxMaskings
       /\ l3_algo' = out.caller
       /\ returned' = out.ret
       /\ keep' = <<out.mask>>
       /\ pre' = <<l3_algo>>
       /\ call' = <<[lst |-> lst, types |-> lst_mask_type,
                     inplace |-> inplace]>>
       /\ nmasked' = IF inplace THEN nmasked + 1 ELSE nmasked
       /\ UNCHANGED <<l3_masks, kind, notMaskVars>>

\* mask_time_series(ts_algo, [ts_masks[k] for k in lst], lst_mask_type, inplace)
MaskTimeSeries(lst, lst_mask_type, inplace) ==
    LET masks == [k \in DOMAIN lst |-> l3_masks[lst[k]]]
        out == mask_time_series(l3_algo, masks, lst_mask_type, inplace)
    IN /\ kind = "TimeSeries"
       /\ returned = <<>>
       /\ inplace => nmasked < MaxMaskings
       /\ l3_algo' = out.caller
       /\ returned' = out.ret
       /\ keep' = <<out.mask>>
       /\ pre' = <<l3_algo>>
       /\ call' = <<[lst |-> lst, types |-> lst_mask_type,
                     inplace |-> inplace]>>
       /\ nmasked' = IF inplace THEN nmasked + 1 ELSE nmasked
       /\ UNCHANGED <<l3_masks, kind, notMaskVars>>

NextMask ==
    \E lst \in MaskLists :
      \E lst_mask_type \in [DOMAIN lst -> MaskTypes] :
        \E inplace \in BOOLEAN :
          \/ MaskProduct(lst, lst_mask_type, inplace)
          \/ MaskTimeSeries(lst, lst_mask_type, inplace)

SpecMask == InitMask /\ [][NextMask]_vars

----------------------------------------------------------------------------
(* Properties of the mask algebra.  They look pixels up by coordinate,     *)
(* in the products as they were passed to the last call.                   *)

Called == call # <<>>
LastCall == call[1]
Passed == pre[1]
KeepField == keep[1]

\* The product the last call wrote to: the caller's one or the copy returned.
Target == IF LastCall.inplace THEN l3_algo ELSE returned[1]

\* The masks and polarities of the last call.
PassedMasks == [k \in DOMAIN LastCall.lst |-> l3_masks[LastCall.lst[k]]]
Includes == {k \in DOMAIN LastCall.lst : LastCall.types[k] = "IN"}
Excludes == {k \in DOMAIN LastCall.lst : LastCall.types[k] = "OUT"}

IdxOf(c, v) == CHOOSE i \in DOMAIN c : c[i] = v
ValAt(p, var, cx, cy) == p.vars[var][IdxOf(p.y, cy)][IdxOf(p.x, cx)]
MaskAt(k, cx, cy) ==
    ValAt(PassedMasks[k], TitleName(PassedMasks[k].title), cx, cy)

RECURSIVE SumAt(_, _, _)
SumAt(K, cx, cy) ==
    IF K = {} THEN 0
    ELSE LET k == CHOOSE k \in K : TRUE
         IN MaskAt(k, cx, cy) + SumAt(K \ {k}, cx, cy)

\* The pixels of the clipped target.
Rows == DOMAIN Target.y
Cols == DOMAIN Target.x

\* C1: the keep field is (include_sum > 0) with Include masks only,
\* (exclude_sum == 0) with Exclude masks only, and the conjunction of the two
\* with both, at every pixel of the shared bounding box.
C1_KeepField ==
    (Called /\ LastCall.lst # <<>>) =>
        /\ DOMAIN KeepField = Rows
        /\ \A i \in Rows :
             /\ DOMAIN KeepField[i] = Cols
             /\ \A j \in Cols :
                  LET inc == SumAt(Includes, Target.x[j], Target.y[i])
                      exc == SumAt(Excludes, Target.x[j], Target.y[i])
                  IN KeepField[i][j] =
                       IF Excludes = {} THEN inc > 0
                       ELSE IF Includes = {} THEN exc = 0
                       ELSE inc > 0 /\ exc = 0

\* A call with one Include and one Exclude mask whose keep field has both
\* kept and discarded pixels.
C1_Witness ==
    /\ Called
    /\ Includes # {} /\ Excludes # {}
    /\ \E i \in Rows : \E j \in Cols : KeepField[i][j]
    /\ \E i \in Rows : \E j \in Cols : ~KeepField[i][j]

\* The keep field of the same call with the list of (mask, polarity) pairs
\* given in the opposite order.
Reverse(s) == [k \in DOMAIN s |-> s[Len(s) + 1 - k]]
KeepReversed ==
    mask_product(Passed, Reverse(PassedMasks), Reverse(LastCall.types),
                 LastCall.inplace).mask

\* C2: same-polarity masks combine by OR, Include and Exclude by AND NOT;
\* the keep field does not depend on the order of the list; Include masks
\* [[1,0],[0,1]] and [[0,1],[0,0]] give [[T,T],[F,T]].
C2_OrAndNot ==
    Called =>
        /\ \A i \in Rows : \A j \in Cols :
             KeepField[i][j] =
               (/\ Includes = {}
                   \/ \E k \in Includes :
                        MaskAt(k, Target.x[j], Target.y[i]) > 0
                /\ \A k \in Excludes :
                        MaskAt(k, Target.x[j], Target.y[i]) = 0)
        /\ KeepReversed = KeepField
        /\ (/\ Len(LastCall.lst) = 2
            /\ Excludes = {}
            /\ {PassedMasks[k].vars[TitleName(PassedMasks[k].title)] :
                   k \in Includes}
               = {<< <<1, 0>>, <<0, 1>> >>, << <<0, 1>>, <<0, 0>> >>}
            /\ DOMAIN Target.x = 1..2 /\ DOMAIN Target.y = 1..2)
           => KeepField = << <<TRUE, TRUE>>, <<FALSE, TRUE>> >>

\* The two Include masks of the example, passed in the order opposite to the
\* one they are held in.
C2_Witness ==
    /\ Called
    /\ LastCall.lst = <<2, 1>> /\ LastCall.types = <<"IN", "IN">>
    /\ KeepField = << <<TRUE, TRUE>>, <<FALSE, TRUE>> >>
    /\ l3_masks[1].vars[TitleName(l3_masks[1].title)] = << <<1, 0>>, <<0, 1>> >>
    /\ l3_masks[2].vars[TitleName(l3_masks[2].title)] = << <<0, 1>>, <<0, 0>> >>

\* The extents the last call intersects: the target's and every mask's.
Extents == {Passed} \cup {PassedMasks[k] : k \in DOMAIN PassedMasks}
BoxXMin == MaxOf({MinOf(Values(p.x)) : p \in Extents})
BoxXMax == MinOf({MaxOf(Values(p.x)) : p \in Extents})
BoxYMin == MaxOf({MinOf(Values(p.y)) : p \in Extents})
BoxYMax == MinOf({MaxOf(Values(p.y)) : p \in Extents})

\* C3: the target is clipped to exactly the intersection of its extent and
\* of every mask's extent, and so is the field made from the masks; extents
\* x in [0,100], y in [0,100] and x in [20,120], y in [-10,90] intersect in
\* x in [20,100], y in [0,90].
C3_SharedBox ==
    Called =>
        /\ Values(Target.x) =
             {c \in Values(Passed.x) : BoxXMin <= c /\ c <= BoxXMax}
        /\ Values(Target.y) =
             {c \in Values(Passed.y) : BoxYMin <= c /\ c <= BoxYMax}
        /\ \A v \in DOMAIN Target.vars :
             /\ Len(Target.vars[v]) = Len(Target.y)
             /\ \A i \in Rows : Len(Target.vars[v][i]) = Len(Target.x)
        /\ Len(KeepField) = Len(Target.y)
        /\ \A i \in Rows : Len(KeepField[i]) = Len(Target.x)
        /\ (/\ Values(Passed.x) = {10 * k : k \in 0..10}
            /\ Values(Passed.y) = {10 * k : k \in 0..10}
            /\ LastCall.lst # <<>>
            /\ \A k \in DOMAIN PassedMasks :
                 /\ Values(PassedMasks[k].x) = {10 * c : c \in 2..12}
                 /\ Values(PassedMasks[k].y) = {10 * c : c \in (-1)..9})
           => /\ Values(Target.x) = {10 * k : k \in 2..10}
              /\ Values(Target.y) = {10 * k : k \in 0..9}

\* The scene of the example masked, and a small target that lost a column.
C3_Witness ==
    /\ Called
    /\ LastCall.lst # <<>>
    /\ MinOf(Values(Passed.x)) = 0 /\ MaxOf(Values(Passed.x)) = 100
    /\ MinOf(Values(Target.x)) = 20 /\ MaxOf(Values(Target.x)) = 100
    /\ MinOf(Values(Target.y)) = 0 /\ MaxOf(Values(Target.y)) = 90

\* C4: after masking, every variable of the clipped target is NaN at every
\* pixel where keep is false.
C4_EveryVariableBlanked ==
    Called =>
        \A v \in DOMAIN Target.vars : \A i \in Rows : \A j \in Cols :
            ~KeepField[i][j] => Target.vars[v][i][j] = NaN

\* A mask's name and polarity are found in the provenance attributes.
Recorded(attrs, name, type) ==
    \/ \E e \in Values(attrs.cloudmask) \cup Values(attrs.watermask) :
         e[1] = name /\ e[3] = type
    \/ <<name, type>> \in Values(attrs.masks)

\* C5: the provenance attributes of a masked product record the name and the
\* polarity of each mask applied to it, by the last call and by earlier ones.
C5_ProvenanceKept ==
    Called =>
        /\ \A k \in DOMAIN PassedMasks :
             Recorded(Target.attrs, TitleName(PassedMasks[k].title),
                      LastCall.types[k])
        /\ \A name \in {"s2cloudless", "waterdetect", "landmask", "lakes"} :
             \A type \in MaskTypes :
               Recorded(Passed.attrs, name, type)
                 => Recorded(Target.attrs, name, type)

\* The product t is the product p clipped to t's grid, its variable named
\* after the algorithm blanked outside the field kf.
IsMaskedFrom(t, p, kf) ==
    /\ Values(t.x) \subseteq Values(p.x)
    /\ Values(t.y) \subseteq Values(p.y)
    /\ \A i \in DOMAIN t.y : \A j \in DOMAIN t.x :
         t.vars[TitleName(t.title)][i][j] =
           IF kf[i][j] THEN ValAt(p, TitleName(p.title), t.x[j], t.y[i])
           ELSE NaN

C6_Step ==
    kind = "L3AlgoProduct" =>
        /\ l3_masks' = l3_masks
        /\ ~call'[1].inplace =>
             /\ l3_algo' = l3_algo
             /\ returned' # <<>>
             /\ IsMaskedFrom(returned'[1], l3_algo, keep'[1])
        /\ call'[1].inplace =>
             /\ returned' = <<>>
             /\ IsMaskedFrom(l3_algo', l3_algo, keep'[1])

\* C6: with inplace=False mask_product returns a masked copy and leaves the
\* product passed in unchanged; with inplace=True it returns None and the
\* product passed in is clipped and masked; the masks are never changed.
C6_InplaceFrame == [][C6_Step]_vars

\* A call with inplace=False that returned a product differing from the one
\* passed in, which the caller still holds untouched.
C6_Witness ==
    /\ Called
    /\ kind = "L3AlgoProduct"
    /\ ~LastCall.inplace
    /\ returned # <<>>
    /\ returned[1] # l3_algo
    /\ l3_algo = Passed
    /\ \E i \in Rows : \E j \in Cols : ~KeepField[i][j]

\* The last call passed one Include mask that is true everywhere.
SingleAllTrueInclude ==
    /\ Called
    /\ Len(LastCall.lst) = 1
    /\ LastCall.types = <<"IN">>
    /\ \A i \in DOMAIN PassedMasks[1].y : \A j \in DOMAIN PassedMasks[1].x :
         PassedMasks[1].vars[TitleName(PassedMasks[1].title)][i][j] = 1

\* The masked product masked once more with the same arguments.
MaskedAgain ==
    IF kind = "L3AlgoProduct"
    THEN mask_product(Target, PassedMasks, LastCall.types, FALSE).ret[1]
    ELSE mask_time_series(Target, PassedMasks, LastCall.types, FALSE).ret[1]

\* C7: a single all-true Include mask leaves every non-NaN value of the
\* target inside the shared bounding box unchanged, and a second application
\* changes nothing more.
C7_AllTrueInclude ==
    SingleAllTrueInclude =>
        /\ \A v \in DOMAIN Target.vars : \A i \in Rows : \A j \in Cols :
             LET old == ValAt(Passed, v, Target.x[j], Target.y[i])
             IN old # NaN => Target.vars[v][i][j] = old
        /\ MaskedAgain.vars = Target.vars
        /\ MaskedAgain.x = Target.x
        /\ MaskedAgain.y = Target.y

\* An all-true Include mask smaller than the target, applied to a target
\* with both valid and NaN pixels inside the shared bounding box.
C7_Witness ==
    /\ SingleAllTrueInclude
    /\ Len(Target.x) < Len(Passed.x)
    /\ \E i \in Rows : \E j \in Cols : Target.vars["ndwi"][i][j] = NaN
    /\ \E i \in Rows : \E j \in Cols : Target.vars["ndwi"][i][j] # NaN

----------------------------------------------------------------------------
(* The Sentinel-2 readers: band extraction and resolution normalisation.   *)
(* A band array is modelled by its shape and by the filter it was          *)
(* resampled with; its values are not followed.                            *)


\* The side of a granule, in pixels of 60 m.
Size60 == 2

\* The longest list of requested bands.
MaxBands == 3

\* The upper left corner of a granule (m), shared by its subdatasets.
OriginX == 600
OriginY == 1200

\* The side of a granule (m).
Extent == 60 * Size60

\* The out_resolution values a constructor accepts, and those a caller gives.
AuthorizedESA == {None, 10, 20, 60}
AuthorizedTHEIA == {None, 10, 20}
GivenResolutions == {None, 10, 20, 30, 60}

\* The readers that take an output resolution.
S2Readers == {"S2_ESA", "S2_THEIA"}

\* The S2 branches of _set_resolution, a smaller processing_resolution kept.
replace_resolutions_kept(out_resolution, processing_resolution) ==
    IF out_resolution = None
    THEN [error |-> FALSE, o_res |-> processing_resolution,
          p_res |-> processing_resolution]
    ELSE IF processing_resolution = None
    THEN [error |-> FALSE, o_res |-> out_resolution,
          p_res |-> out_resolution]
    ELSE [error |-> FALSE, o_res |-> out_resolution,
          p_res |-> processing_resolution]
\* The S2_ESA and S2_THEIA branches of _set_resolution once the two checks
\* have passed: "if out_resolution is None: ... else: ...".
replace_resolutions(out_resolution, processing_resolution) ==
    IF out_resolution = None
    THEN [error |-> FALSE, o_res |-> processing_resolution,
          p_res |-> processing_resolution]
    ELSE IF processing_resolution = None
            \/ processing_resolution < out_resolution
    THEN [error |-> FALSE, o_res |-> out_resolution,
          p_res |-> out_resolution]
    ELSE [error |-> FALSE, o_res |-> out_resolution,
          p_res |-> processing_resolution]

\* ProductBuilder._set_resolution without its two checks.
set_resolution_unchecked(type, out_resolution, processing_resolution) ==
    IF type \in S2Readers
    THEN replace_resolutions(out_resolution, processing_resolution)
    ELSE [error |-> FALSE, o_res |-> out_resolution,
          p_res |-> processing_resolution]
\* ProductBuilder._set_resolution(product_type, out_resolution,
\* processing_resolution): InputError, or (out_resolution,
\* processing_resolution) as returned.
set_resolution(type, out_resolution, processing_resolution) ==
    LET authorized_res == IF type = "S2_ESA" THEN AuthorizedESA
                          ELSE AuthorizedTHEIA
    IN IF type \in S2Readers
          /\ (out_resolution \notin authorized_res
              \/ processing_resolution \notin authorized_res)
       THEN [error |-> TRUE, o_res |-> None, p_res |-> None]
       ELSE set_resolution_unchecked(type, out_resolution,
                                     processing_resolution)

\* An open rasterio dataset of one resolution: its transform maps
\* (col, row) to the upper left corner of the pixel.
Subdataset(res) ==
    [res |-> res, width |-> Extent \div res, height |-> Extent \div res]

\* subdataset.transform * (col, row)
transform(subdataset, col, row) ==
    <<OriginX + col * subdataset.res, OriginY - row * subdataset.res>>

\* subdataset.index(x, y): (row, col) of the pixel holding (x, y), by floor.
index(subdataset, x, y) ==
    <<(OriginY - y) \div subdataset.res, (x - OriginX) \div subdataset.res>>

\* get_ij_bbox(subdataset, geom) with geom.bounds = (x_min, y_min, x_max, y_max)
get_ij_bbox(subdataset, bounds) ==
    LET start == index(subdataset, bounds[1], bounds[4])
        stop  == index(subdataset, bounds[3], bounds[2])
    IN <<MaxOf({0, start[1]}), MaxOf({0, start[2]}),
         MinOf({subdataset.height - 1, stop[1]}),
         MinOf({subdataset.width - 1, stop[2]})>>

\* subdataset.read(i, window=Window.from_slices((row_start, row_stop + 1),
\* (col_start, col_stop + 1))): the pixels of the window the raster holds.
read(subdataset, ij_bbox) ==
    LET rows == {r \in ij_bbox[1]..ij_bbox[3] : r \in 0..subdataset.height - 1}
        cols == {c \in ij_bbox[2]..ij_bbox[4] : c \in 0..subdataset.width - 1}
    IN [shape |-> <<Cardinality(rows), Cardinality(cols)>>, filter |-> "none"]

\* np.arange(start, stop, step) for step > 0 and np.arange(start, stop, -step)
arange(start, stop, step) ==
    LET n == IF stop > start THEN (stop - start + step - 1) \div step ELSE 0
    IN AsSeq([k \in 1..n |-> start + (k - 1) * step])
arange_down(start, stop, step) ==
    LET n == IF start > stop THEN (start - stop + step - 1) \div step ELSE 0
    IN AsSeq([k \in 1..n |-> start - (k - 1) * step])

\* _compute_x_coords / _compute_y_coords: the centres of the output pixels.
compute_x_coords(out_res, x0, x1) ==
    arange(x0 + out_res \div 2, (x1 - out_res \div 2) + 1, out_res)

\* The y coordinates from the bottom row up.
compute_y_coords_ascending(out_res, y0, y1) ==
    arange(y1 + out_res \div 2, (y0 - out_res \div 2) + 1, out_res)
compute_y_coords(out_res, y0, y1) ==
    arange_down(y0 - out_res \div 2, (y1 + out_res \div 2) - 1, out_res)

\* The filter choice with its two branches swapped.
resampling_filter_swapped(in_res, out_res) ==
    IF in_res < out_res THEN "NEAREST" ELSE "LANCZOS"

\* Image.LANCZOS if scale_factor < 1 else Image.NEAREST, with
\* scale_factor = in_res / out_res.
resampling_filter(in_res, out_res) ==
    IF in_res < out_res THEN "LANCZOS" ELSE "NEAREST"

\* The size counted as a window's last index is, one more than the product.
int_scaled_plus_one(n, in_res, out_res) == (n * in_res) \div out_res + 1

\* int(n * scale_factor): for the resolutions 10, 20, 60 the float product
\* truncates to the floor of n * in_res / out_res.
int_scaled(n, in_res, out_res) == (n * in_res) \div out_res

\* resample_band_array(arr, in_res, out_res)
resample_band_array(arr, in_res, out_res) ==
    [shape  |-> <<int_scaled(arr.shape[1], in_res, out_res),
                  int_scaled(arr.shape[2], in_res, out_res)>>,
     filter |-> resampling_filter(in_res, out_res)]

\* resize_and_resample_band_array(arr, ij_bbox, in_res, out_res): the size
\* comes from the window, not from the array.
resize_and_resample_band_array(arr, ij_bbox, in_res, out_res) ==
    [shape  |-> <<int_scaled(ij_bbox[3] - ij_bbox[1] + 1, in_res, out_res),
                  int_scaled(ij_bbox[4] - ij_bbox[2] + 1, in_res, out_res)>>,
     filter |-> resampling_filter(in_res, out_res)]

\* The bounding box handed to the later bands, left as computed.
inner_bbox_unshrunk(x0, y0, x1, y1) == <<x0, y0, x1, y1>>

\* x1 -= 1; y1 += 1: the lower right corner moves inside the last pixel.
inner_bbox(x0, y0, x1, y1) == <<x0, y0, x1 - 1, y1 + 1>>

\* _extract_first_band(subdataset, i): the window of the region of interest
\* (or the whole raster), the band array, the coordinates and the bounding
\* box handed to the later bands.
extract_first_band(subdataset, ROI, out_res) ==
    LET ij_bbox == IF ROI # <<>> THEN get_ij_bbox(subdataset, ROI[1])
                   ELSE <<0, 0, subdataset.height - 1, subdataset.width - 1>>
        arr == read(subdataset, ij_bbox)
        p0 == IF ROI # <<>>
              THEN transform(subdataset, ij_bbox[2], ij_bbox[1])
              ELSE transform(subdataset, 0, 0)
        p1 == IF ROI # <<>>
              THEN transform(subdataset, ij_bbox[4] + 1, ij_bbox[3] + 1)
              ELSE transform(subdataset, subdataset.width, subdataset.height)
        band_array == IF out_res # subdataset.res
                      THEN resample_band_array(arr, subdataset.res, out_res)
                      ELSE arr
    IN [band_array |-> band_array,
        read       |-> arr.shape,
        ij_bbox    |-> ij_bbox,
        x          |-> compute_x_coords(out_res, p0[1], p1[1]),
        y          |-> compute_y_coords(out_res, p0[2], p1[2]),
        xy_bbox    |-> inner_bbox(p0[1], p0[2], p1[1], p1[2])]

\* _extract_nth_band(subdataset, i, xy_bbox)
extract_nth_band(subdataset, xy_bbox_, out_res) ==
    LET start == index(subdataset, xy_bbox_[1], xy_bbox_[2])
        stop  == index(subdataset, xy_bbox_[3], xy_bbox_[4])
        ij_bbox == <<start[1], start[2], stop[1], stop[2]>>
        arr == read(subdataset, ij_bbox)
        band_array == IF out_res # subdataset.res
                      THEN resize_and_resample_band_array(
                               arr, ij_bbox, subdataset.res, out_res)
                      ELSE arr
    IN [band_array |-> band_array, read |-> arr.shape, ij_bbox |-> ij_bbox]

\* data[band] = band_array, with what the band was read as.
Entry(band, subdataset, r) ==
    [band |-> band, in_res |-> subdataset.res, read |-> r.read,
     shape |-> r.band_array.shape, filter |-> r.band_array.filter]

\* dataset.subdatasets of a S2_ESA product: the bands at 10 m, 20 m and
\* 60 m, then the true colour image.
ESASubdatasets ==
    <<[res |-> 10, descriptions |-> <<"B4", "B3", "B2", "B8">>],
      [res |-> 20, descriptions |-> <<"B5", "B6", "B7", "B8A", "B11", "B12">>],
      [res |-> 60, descriptions |-> <<"B1", "B9">>],
      [res |-> 10, descriptions |-> <<"B4", "B3", "B2">>]>>

\* The requested bands of the subdatasets k, k-1, .., 1, in that order: the
\* loop over requested_bands[::-1], each band with its subdataset's pixel size.
RECURSIVE esa_bands(_, _)
esa_bands(requested, k) ==
    IF k = 0 THEN <<>>
    ELSE LET sub == ESASubdatasets[k]
             Test(band) == band \in Values(requested)
             bands == SelectSeq(sub.descriptions, Test)
         IN [n \in 1..Len(bands) |-> [band |-> bands[n], res |-> sub.res]]
            \o esa_bands(requested, k - 1)

\* The band files of a S2_THEIA product, in the order of their names.
THEIABands ==
    <<"B11", "B12", "B2", "B3", "B4", "B5", "B6", "B7", "B8", "B8A">>

\* 'R1' if band in ('B2', 'B3', 'B4', 'B8') else 'R2', as the pixel size.
theia_res(band) == IF band \in {"B2", "B3", "B4", "B8"} THEN 10 ELSE 20

\* The bands of S, by decreasing file name.
RECURSIVE by_name_reversed(_)
by_name_reversed(S) ==
    IF S = {} THEN <<>>
    ELSE LET rank(b) == CHOOSE n \in DOMAIN THEIABands : THEIABands[n] = b
             last == CHOOSE b \in S : \A c \in S : rank(c) <= rank(b)
         IN <<[band |-> last, res |-> theia_res(last)]>>
            \o by_name_reversed(S \ {last})

\* The bands in the order of the request, whatever their resolutions.
theia_bands_unsorted(requested) ==
    [n \in DOMAIN requested |->
       [band |-> requested[n], res |-> theia_res(requested[n])]]
\* sorted(zip(tmp, requested_bands), reverse=True) when both R1 and R2 bands
\* are requested: the R2 bands first; the order of the request otherwise.
theia_bands(requested) ==
    LET R1 == {b \in Values(requested) : theia_res(b) = 10}
        R2 == {b \in Values(requested) : theia_res(b) = 20}
    IN IF R1 # {} /\ R2 # {}
       THEN by_name_reversed(R2) \o by_name_reversed(R1)
       ELSE [n \in DOMAIN requested |->
               [band |-> requested[n], res |-> theia_res(requested[n])]]

\* min_res: 10 if a R1 band is requested, 20 otherwise.
min_res(requested) ==
    IF \E n \in DOMAIN requested : theia_res(requested[n]) = 10
    THEN 10 ELSE 20

-----------------------------------------------------------------------------
(* GRSReader and C2RCCReader (sisppeo/readers/GRS.py, C2RCC.py): one       *)
(* netCDF dataset over the granule, with pixels of 20 m.                   *)

\* self._res of GRSReader for a S2 product, and the pixel size
\* C2RCCReader._extract_ROI divides by.
GRS_res == 20

\* len(dataset.x) and len(dataset.y)
nc_nx == Extent \div GRS_res
nc_ny == Extent \div GRS_res

\* xy_bbox of GRSReader.extract_bands: [x0, y0, x1, y1] with
\* x1, y1 = fwd * (dataset.x.values[-1] + 1, dataset.y.values[-1] + 1)
grs_xy_bbox ==
    <<OriginX, OriginY,
      OriginX + nc_nx * GRS_res, OriginY - nc_ny * GRS_res>>

\* np.linspace(start, stop, num)
linspace(start, stop, num) ==
    AsSeq([k \in 1..num |->
             IF num = 1 THEN start
             ELSE start + ((k - 1) * (stop - start)) \div (num - 1)])

\* C2RCCReader._compute_proj_coords: x_min, y_max, x_max, y_min are the
\* projections of the extreme latitudes and longitudes of the dataset, which
\* are those of the centres of its corner pixels.
c2rcc_xy_bbox ==
    <<OriginX + GRS_res \div 2, OriginY - GRS_res \div 2,
      OriginX + nc_nx * GRS_res - GRS_res \div 2,
      OriginY - nc_ny * GRS_res + GRS_res \div 2>>

\* The test of _extract_ROI that raises GeometryError, with
\* ROI = <<>> or <<geom.bounds>> and xy_bbox_ = (x0, y0, x1, y1).
ROI_is_outside(ROI, xy_bbox_) ==
    /\ ROI # <<>>
    /\ \/ (ROI[1][3] < xy_bbox_[1] \/ ROI[1][2] > xy_bbox_[2])
       \/ (ROI[1][1] > xy_bbox_[3] \/ ROI[1][4] < xy_bbox_[4])

\* _extract_ROI(xy_bbox, nx, ny) when it raises nothing.
extract_ROI(ROI, xy_bbox_, nx, ny) ==
    IF ROI = <<>> THEN <<0, 0, ny - 1, nx - 1>>
    ELSE LET x_min == ROI[1][1]
             y_min == ROI[1][2]
             x_max == ROI[1][3]
             y_max == ROI[1][4]
             x0 == xy_bbox_[1]
             y0 == xy_bbox_[2]
             x1 == xy_bbox_[3]
             y1 == xy_bbox_[4]
         IN <<IF y_max > y0 THEN 0 ELSE (y0 - y_max) \div GRS_res,
              IF x_min < x0 THEN 0 ELSE (x_min - x0) \div GRS_res,
              IF y_min < y1 THEN ny - 1 ELSE (y0 - y_min) \div GRS_res,
              IF x_max > x1 THEN nx - 1 ELSE (x_max - x0) \div GRS_res>>

\* a[start:stop] on an axis of n items, for 0 <= start: its length.
slice_len(n, start, stop) ==
    MaxOf({0, MinOf({stop, n}) - MinOf({start, n})})

\* _extract_band(dataset, band, ij_bbox):
\* dataset[band].values[row_start:row_stop + 1, col_start:col_stop + 1]
extract_band(nx, ny, ij_bbox) ==
    [shape |-> <<slice_len(ny, ij_bbox[1], ij_bbox[3] + 1),
                 slice_len(nx, ij_bbox[2], ij_bbox[4] + 1)>>,
     filter |-> "none"]

\* GRSReader._compute_proj_coords(fwd, ij_bbox)
grs_compute_proj_coords(ij_bbox) ==
    LET x_start == OriginX + ij_bbox[2] * GRS_res
        y_start == OriginY - ij_bbox[1] * GRS_res
        x_stop  == OriginX + (ij_bbox[4] + 1) * GRS_res
        y_stop  == OriginY - (ij_bbox[3] + 1) * GRS_res
    IN [x |-> <<arange(x_start + GRS_res \div 2, x_stop - 1, GRS_res)>>,
        y |-> <<arange_down(y_start - GRS_res \div 2, y_stop + 1, GRS_res)>>]

\* C2RCCReader._compute_proj_coords(latlon_bbox, nx, ny)
c2rcc_compute_proj_coords(nx, ny) ==
    [x |-> <<linspace(c2rcc_xy_bbox[1], c2rcc_xy_bbox[3], nx)>>,
     y |-> <<linspace(c2rcc_xy_bbox[2], c2rcc_xy_bbox[4], ny)>>]

\* The bands C2RCCReader.__init__ refuses.
C2RCCUnavailable == {"B7", "B8", "B8A", "B11", "B12"}

----------------------------------------------------------------------------
(* The extraction sessions: one reader, from its construction to the end   *)
(* of extract_bands().                                                     *)

\* The bands a caller asks a product for; B10 is not in a S2_ESA L2A
\* product, B1 is not in a S2_THEIA product.
ESARequestable == {"B1", "B5", "B4", "B10"}
THEIARequestable == {"B4", "B8", "B5", "B1"}

\* The lists of 1..MaxBands different bands of S.
BandLists(S) ==
    UNION {{q \in [1..n -> S] : \A a, b \in 1..n : q[a] = q[b] => a = b} :
           n \in 1..MaxBands}

\* Where the sides of a region of interest lie: metres east of the west
\* edge of the granule, and metres south of its north edge.
RoiEast == {-45, -25, 15, 70, Extent, Extent + 25}
RoiSouth == {-25, 15, 70, Extent}

\* No region of interest, or geom.bounds = (x_min, y_min, x_max, y_max) of
\* one: inside the granule, across an edge, up to an edge, west of the
\* granule, or east of its east edge from that edge on.
ROIs ==
    {<<>>} \cup
    {<<<<OriginX + w, OriginY - s, OriginX + e, OriginY - n>>>> :
        w \in RoiEast, e \in RoiEast, n \in RoiSouth, s \in RoiSouth}

Requests(bands) ==
    {[requested_bands |-> q, ROI |-> roi, out_resolution |-> res] :
        q \in BandLists(bands),
        roi \in {r \in ROIs : r = <<>> \/ (r[1][1] < r[1][3] /\ r[1][2] < r[1][4])},
        res \in GivenResolutions}

\* GRSReader and C2RCCReader take no output resolution.
GRSRequestable == {"B4", "B5"}
C2RCCRequestable == {"B4", "B8"}
NcRequests(bands) == {q \in Requests(bands) : q.out_resolution = None}

\* The calls of ProductBuilder.extract_data: one band of the whole granule,
\* with an output and a processing resolution.
BuilderRequests(bands) ==
    {q \in Requests(bands) : q.ROI = <<>> /\ Len(q.requested_bands) = 1}

\* out_resolution and processing_resolution given to extract_data with a
\* product type that is neither S2_ESA nor S2_THEIA.
BuilderResolutions == {None, 10, GRS_res}

InitRead ==
    /\ OnlyReader
    /\ \/ /\ product_type = "S2_ESA"
          /\ request \in Requests(ESARequestable)
          /\ builder = <<>>
          /\ pc = "new"
       \/ /\ product_type = "S2_THEIA"
          /\ request \in Requests(THEIARequestable)
          /\ builder = <<>>
          /\ pc = "new"
       \/ /\ product_type = "GRS"
          /\ request \in NcRequests(GRSRequestable)
          /\ builder = <<>>
          /\ pc = "new"
       \/ /\ product_type = "C2RCC"
          /\ request \in NcRequests(C2RCCRequestable)
          /\ builder = <<>>
          /\ pc = "new"
       \/ /\ product_type = "S2_ESA"
          /\ request \in BuilderRequests(ESARequestable)
          /\ \E p \in GivenResolutions :
                builder = <<[processing_resolution |-> p,
                             out_resolution |-> None,
                             results |-> <<>>]>>
          /\ pc = "builder"
       \/ /\ product_type = "S2_THEIA"
          /\ request \in BuilderRequests(THEIARequestable)
          /\ \E p \in GivenResolutions :
                builder = <<[processing_resolution |-> p,
                             out_resolution |-> None,
                             results |-> <<>>]>>
          /\ pc = "builder"
       \/ /\ product_type = "GRS"
          /\ \E q \in BuilderRequests(GRSRequestable),
                o \in BuilderResolutions :
                request = [q EXCEPT !.out_resolution = o]
          /\ \E p \in BuilderResolutions :
                builder = <<[processing_resolution |-> p,
                             out_resolution |-> None,
                             results |-> <<>>]>>
          /\ pc = "builder"
    /\ inputs = <<>>
    /\ requested_bands = <<>>
    /\ intermediate_data = <<>>
    /\ xy_bbox = <<>>
    /\ data = <<>>
    /\ window = <<>>
    /\ handles = {}

\* Reader.__init__ and the check of out_resolution of a subclass.
Construct(authorized) ==
    /\ pc = "new"
    /\ IF request.out_resolution \notin authorized
       THEN /\ pc' = "InputError"
            /\ UNCHANGED <<inputs, intermediate_data>>
       ELSE /\ inputs' = request
            /\ intermediate_data' = [x |-> <<>>, y |-> <<>>]
            /\ pc' = "constructed"
    /\ UNCHANGED <<product_type, request, requested_bands, xy_bbox, data,
                   window, handles, notReadVars>>

\* ProductBuilder.extract_data, up to the construction of the reader, which
\* is given processing_resolution as its out_resolution; GRSReader drops
\* it with its other **_ignored arguments.
extract_data ==
    LET r == set_resolution(product_type, request.out_resolution,
                            builder[1].processing_resolution)
        authorized == IF product_type = "S2_ESA" THEN AuthorizedESA
                      ELSE AuthorizedTHEIA
    IN /\ pc = "builder"
       /\ IF r.error
          THEN /\ pc' = "InputError"
               /\ UNCHANGED <<builder, inputs, intermediate_data>>
          ELSE /\ builder' = <<[builder[1] EXCEPT !.out_resolution = r.o_res]>>
               /\ IF product_type \in S2Readers /\ r.p_res \notin authorized
                  THEN /\ pc' = "InputError"
                       /\ UNCHANGED <<inputs, intermediate_data>>
                  ELSE /\ inputs' = [request EXCEPT !.out_resolution =
                                        IF product_type \in S2Readers
                                        THEN r.p_res ELSE None]
                       /\ intermediate_data' = [x |-> <<>>, y |-> <<>>]
                       /\ pc' = "constructed"
       /\ UNCHANGED <<product_type, request, requested_bands, xy_bbox, data,
                      window, handles, maskVars, resampleVars, batchVars,
                      stagedVars, coordVars>>

S2ESAReader_init == product_type = "S2_ESA" /\ Construct(AuthorizedESA)

S2THEIAReader_init == product_type = "S2_THEIA" /\ Construct(AuthorizedTHEIA)

\* S2ESAReader.extract_bands, up to the loop over the bands.
S2ESA_filter ==
    /\ product_type = "S2_ESA"
    /\ pc = "constructed"
    /\ requested_bands' = esa_bands(inputs.requested_bands,
                                    Len(ESASubdatasets) - 1)
    /\ handles' = {"dataset"}
    /\ pc' = "loop"
    /\ UNCHANGED <<product_type, request, inputs, intermediate_data, xy_bbox,
                   data, window, notReadVars>>

\* S2THEIAReader.extract_bands, up to the loop over the bands.
S2THEIA_filter ==
    /\ product_type = "S2_THEIA"
    /\ pc = "constructed"
    /\ IF \E band \in Values(inputs.requested_bands) :
             band \notin Values(THEIABands)
       THEN /\ pc' = "ProductError"
            /\ UNCHANGED <<requested_bands, inputs>>
       ELSE /\ requested_bands' = theia_bands(inputs.requested_bands)
            /\ inputs' = IF inputs.out_resolution = None
                         THEN [inputs EXCEPT !.out_resolution =
                                 min_res(inputs.requested_bands)]
                         ELSE inputs
            /\ pc' = "loop"
    /\ UNCHANGED <<product_type, request, intermediate_data, xy_bbox, data,
                   window, handles, notReadVars>>

\* The handles open between two bands.  S2ESAReader opens the product
\* once and closes it after the loop; it opens a subdataset in a with
\* block around the bands of that subdataset.  S2THEIAReader opens each
\* band in a with block of its own.
open_between_bands(next_in_same_subdataset) ==
    IF product_type = "S2_ESA"
    THEN {"dataset"} \cup (IF next_in_same_subdataset
                           THEN {"subdataset"} ELSE {})
    ELSE {}

same_subdataset(bands) ==
    Len(bands) > 1 /\ bands[1].res = bands[2].res

\* The first band of the loop: the check of out_resolution against the
\* band's pixel size, then _extract_first_band.  Reading a window with no
\* pixel is left to rasterio, and the session is not followed further.
FirstBand(out_res) ==
    LET band == Head(requested_bands)
        subdataset == Subdataset(band.res)
        r == extract_first_band(subdataset, inputs.ROI, out_res)
    IN /\ pc = "loop"
       /\ requested_bands # <<>>
       /\ intermediate_data.x = <<>>
       /\ inputs' = [inputs EXCEPT !.out_resolution = out_res]
       /\ IF out_res > subdataset.res
          THEN /\ pc' = "InputError"
               /\ handles' = open_between_bands(FALSE)
               /\ UNCHANGED <<requested_bands, intermediate_data, xy_bbox,
                              data, window>>
          ELSE IF r.ij_bbox[3] < r.ij_bbox[1] \/ r.ij_bbox[4] < r.ij_bbox[2]
          THEN /\ pc' = "EmptyWindow"
               /\ window' = <<[ij_bbox |-> r.ij_bbox,
                               height |-> subdataset.height,
                               width |-> subdataset.width]>>
               /\ handles' = open_between_bands(TRUE)
               /\ UNCHANGED <<requested_bands, intermediate_data, xy_bbox,
                              data>>
          ELSE /\ intermediate_data' = [x |-> <<r.x>>, y |-> <<r.y>>]
               /\ xy_bbox' = <<r.xy_bbox>>
               /\ window' = <<[ij_bbox |-> r.ij_bbox,
                               height |-> subdataset.height,
                               width |-> subdataset.width]>>
               /\ data' = Append(data, Entry(band.band, subdataset, r))
               /\ requested_bands' = Tail(requested_bands)
               /\ handles' = open_between_bands(
                                 same_subdataset(requested_bands))
               /\ pc' = "loop"
       /\ UNCHANGED <<product_type, request, notReadVars>>

\* S2_ESA sets the default resolution in the loop, from the band at hand.
S2ESA_first_band ==
    /\ product_type = "S2_ESA"
    /\ pc = "loop" /\ requested_bands # <<>>
    /\ FirstBand(IF inputs.out_resolution = None
                 THEN Head(requested_bands).res
                 ELSE inputs.out_resolution)

S2THEIA_first_band ==
    /\ product_type = "S2_THEIA"
    /\ FirstBand(inputs.out_resolution)

\* A later band of the loop: _extract_nth_band.
NthBand ==
    LET band == Head(requested_bands)
        subdataset == Subdataset(band.res)
        r == extract_nth_band(subdataset, xy_bbox[1], inputs.out_resolution)
    IN /\ pc = "loop"
       /\ requested_bands # <<>>
       /\ intermediate_data.x # <<>>
       /\ data' = Append(data, Entry(band.band, subdataset, r))
       /\ requested_bands' = Tail(requested_bands)
       /\ handles' = open_between_bands(same_subdataset(requested_bands))
       /\ UNCHANGED <<product_type, request, inputs, intermediate_data,
                      xy_bbox, window, pc, notReadVars>>

S2ESA_nth_band == product_type = "S2_ESA" /\ NthBand

S2THEIA_nth_band == product_type = "S2_THEIA" /\ NthBand

\* The end of extract_bands: S2ESAReader closes the product, and the
\* outputs are stored.
StoreOutputs ==
    /\ pc = "loop"
    /\ requested_bands = <<>>
    /\ handles' = {}
    /\ pc' = "extracted"
    /\ UNCHANGED <<product_type, request, inputs, requested_bands,
                   intermediate_data, xy_bbox, data, window, notReadVars>>

\* GRSReader.__init__
GRSReader_init ==
    /\ product_type = "GRS"
    /\ pc = "new"
    /\ inputs' = request
    /\ intermediate_data' = [x |-> <<>>, y |-> <<>>]
    /\ pc' = "constructed"
    /\ UNCHANGED <<product_type, request, requested_bands, xy_bbox, data,
                   window, handles, notReadVars>>

\* C2RCCReader.__init__, called with a sensing date.
C2RCCReader_init ==
    /\ product_type = "C2RCC"
    /\ pc = "new"
    /\ IF \E band \in Values(request.requested_bands) :
             band \in C2RCCUnavailable
       THEN /\ pc' = "ProductError"
            /\ UNCHANGED <<inputs, intermediate_data>>
       ELSE /\ inputs' = request
            /\ intermediate_data' = [x |-> <<>>, y |-> <<>>]
            /\ pc' = "constructed"
    /\ UNCHANGED <<product_type, request, requested_bands, xy_bbox, data,
                   window, handles, notReadVars>>

\* extract_bands of the two readers, from xr.open_dataset to _extract_ROI.
OpenAndExtractROI(xy_bbox_) ==
    /\ pc = "constructed"
    /\ handles' = {"dataset"}
    /\ xy_bbox' = <<xy_bbox_>>
    /\ IF ROI_is_outside(inputs.ROI, xy_bbox_)
       THEN /\ pc' = "GeometryError"
            /\ UNCHANGED <<requested_bands, window>>
       ELSE /\ window' = <<[ij_bbox |-> extract_ROI(inputs.ROI, xy_bbox_,
                                                   nc_nx, nc_ny),
                            height |-> nc_ny, width |-> nc_nx]>>
            /\ requested_bands' =
                  [n \in DOMAIN inputs.requested_bands |->
                     [band |-> inputs.requested_bands[n], res |-> GRS_res]]
            /\ pc' = "bands"
    /\ UNCHANGED <<product_type, request, inputs, data, notReadVars>>

GRS_extract_ROI ==
    /\ product_type = "GRS"
    /\ OpenAndExtractROI(grs_xy_bbox)
    /\ UNCHANGED intermediate_data

\* C2RCCReader computes the coordinates of the whole dataset first.
C2RCC_extract_ROI ==
    /\ product_type = "C2RCC"
    /\ OpenAndExtractROI(c2rcc_xy_bbox)
    /\ intermediate_data' = c2rcc_compute_proj_coords(nc_nx, nc_ny)

\* One band of the loop of the two readers: _extract_band.
ExtractBand ==
    LET band == Head(requested_bands)
        arr == extract_band(nc_nx, nc_ny, window[1].ij_bbox)
    IN /\ pc = "bands"
       /\ requested_bands # <<>>
       /\ data' = Append(data, [band |-> band.band, in_res |-> band.res,
                                read |-> arr.shape, shape |-> arr.shape,
                                filter |-> arr.filter])
       /\ requested_bands' = Tail(requested_bands)
       /\ UNCHANGED <<product_type, request, inputs, intermediate_data,
                      xy_bbox, window, handles, pc, notReadVars>>

GRS_extract_band == product_type = "GRS" /\ ExtractBand

C2RCC_extract_band == product_type = "C2RCC" /\ ExtractBand

\* The end of GRSReader.extract_bands: the coordinates of the window are
\* computed, the dataset is closed and the outputs are stored.
GRS_store ==
    /\ product_type = "GRS"
    /\ pc = "bands"
    /\ requested_bands = <<>>
    /\ intermediate_data' = grs_compute_proj_coords(window[1].ij_bbox)
    /\ handles' = {}
    /\ pc' = "extracted"
    /\ UNCHANGED <<product_type, request, inputs, requested_bands, xy_bbox,
                   data, window, notReadVars>>

\* The end of C2RCCReader.extract_bands.
C2RCC_store ==
    /\ product_type = "C2RCC"
    /\ pc = "bands"
    /\ requested_bands = <<>>
    /\ handles' = {}
    /\ pc' = "extracted"
    /\ UNCHANGED <<product_type, request, inputs, requested_bands,
                   intermediate_data, xy_bbox, data, window, notReadVars>>

\* create_ds of the four readers: xr.Dataset(...) takes every band array as
\* (time, y, x) on the coordinates x and y, and refuses arrays whose shape
\* is not (1, len(y), len(x)).
create_ds ==
    /\ pc = "extracted"
    /\ IF /\ data # <<>>
          /\ \A k \in DOMAIN data :
                data[k].shape = <<Len(intermediate_data.y[1]),
                                  Len(intermediate_data.x[1])>>
       THEN pc' = "assembled"
       ELSE pc' = "ValueError"
    /\ UNCHANGED <<product_type, request, inputs, requested_bands,
                   intermediate_data, xy_bbox, data, window, handles,
                   notReadVars>>

\* ProductBuilder.compute_masks of a builder with one mask, after
\* extract_data: ds_res is x.values[1] - x.values[0]; _compute_mask keeps
\* the grid of the extracted dataset unless self._out_resolution is set and
\* differs from ds_res.  In that branch the 1 x N x M array of the mask goes
\* through resample_band_array and .reshape((1, *arr.shape)) with the shape
\* it had before the resampling, and then, with one more dimension than
\* [time, y, x], into xr.DataArray: the branch raises.
compute_masks ==
    LET x == intermediate_data.x[1]
        y == intermediate_data.y[1]
        in_res == x[2] - x[1]
        out_resolution == builder[1].out_resolution
    IN /\ pc = "assembled"
       /\ builder # <<>>
       /\ builder[1].results = <<>>
       /\ IF Len(x) < 2
          THEN pc' = "IndexError" /\ UNCHANGED builder
          ELSE IF out_resolution # None /\ out_resolution # in_res
          THEN pc' = "raised" /\ UNCHANGED builder
          ELSE /\ builder' = <<[builder[1] EXCEPT !.results =
                                  <<[shape |-> data[1].shape,
                                     x |-> x, y |-> y]>>]>>
               /\ pc' = pc
       /\ UNCHANGED <<product_type, request, inputs, requested_bands,
                      intermediate_data, xy_bbox, data, window, handles,
                      maskVars, resampleVars, batchVars, stagedVars,
                      coordVars>>

NextRead ==
    \/ S2ESAReader_init
    \/ S2THEIAReader_init
    \/ S2ESA_filter
    \/ S2THEIA_filter
    \/ S2ESA_first_band
    \/ S2THEIA_first_band
    \/ S2ESA_nth_band
    \/ S2THEIA_nth_band
    \/ StoreOutputs
    \/ GRSReader_init
    \/ C2RCCReader_init
    \/ GRS_extract_ROI
    \/ C2RCC_extract_ROI
    \/ GRS_extract_band
    \/ C2RCC_extract_band
    \/ GRS_store
    \/ C2RCC_store
    \/ create_ds
    \/ extract_data
    \/ compute_masks

SpecRead == InitRead /\ [][NextRead]_vars

----------------------------------------------------------------------------
(* Claims about the extraction sessions.                                   *)

\* The coordinate grid computed from the first band, as (len(y), len(x)).
GridShape == <<Len(intermediate_data.y[1]), Len(intermediate_data.x[1])>>

\* The ground size (height, width in m) of the window band k was read through.
Footprint(k) == <<data[k].read[1] * data[k].in_res,
                  data[k].read[2] * data[k].in_res>>

\* C8: any two bands of one session with different native resolutions have,
\* after normalisation, the same shape, which is (len(y), len(x)) of the
\* grid computed from the first band; every later band is read through a
\* window covering the ground the first band's window covers.
C8_AlignedShapes ==
    \A a, b \in DOMAIN data :
        data[a].in_res # data[b].in_res =>
            /\ data[a].shape = data[b].shape
            /\ data[a].shape = GridShape
            /\ Footprint(a) = Footprint(1)
            /\ Footprint(b) = Footprint(1)

\* A session with a region of interest that ended with two bands of
\* different native resolutions, one of them resampled to a coarser grid of
\* more than one row and column.
C8_Witness ==
    /\ pc = "extracted"
    /\ inputs.ROI # <<>>
    /\ \E a, b \in DOMAIN data :
          /\ data[a].in_res > data[b].in_res
          /\ data[b].filter = "LANCZOS"
          /\ data[b].shape[1] > 1 /\ data[b].shape[2] > 1
          /\ data[b].read # data[b].shape

\* C9: when no output resolution is requested, the session's output
\* resolution is the native resolution of the first extracted band, and every
\* band is normalised to it (its array covers its window at that pixel size).
C9_AnchorIsFirstBand ==
    (product_type \in S2Readers /\ builder = <<>> /\ data # <<>>
        /\ request.out_resolution = None) =>
        /\ inputs.out_resolution = data[1].in_res
        /\ \A k \in DOMAIN data :
              /\ data[k].shape[1] * inputs.out_resolution = Footprint(k)[1]
              /\ data[k].shape[2] * inputs.out_resolution = Footprint(k)[2]

\* C10: a band whose native resolution is the output resolution is passed
\* through with no resampling call; otherwise, with scale = R_in / R_out, it
\* is resampled with the smoothing filter when scale < 1 and with
\* nearest-neighbour when scale >= 1.
C10_FilterChoice ==
    product_type \in S2Readers =>
    \A k \in DOMAIN data :
        /\ data[k].in_res = inputs.out_resolution =>
              data[k].filter = "none" /\ data[k].shape = data[k].read
        /\ data[k].in_res < inputs.out_resolution =>
              data[k].filter = "LANCZOS"
        /\ data[k].in_res > inputs.out_resolution =>
              data[k].filter = "NEAREST"

\* A session that ended with one band passed through, one resampled to a
\* finer grid and one to a coarser grid.
C10_Witness ==
    /\ pc = "extracted"
    /\ \E a, b, c \in DOMAIN data :
          /\ data[a].filter = "none"
          /\ data[b].filter = "NEAREST" /\ data[b].in_res > inputs.out_resolution
          /\ data[c].filter = "LANCZOS" /\ data[c].in_res < inputs.out_resolution

----------------------------------------------------------------------------
(* Direct calls of resample_band_array and resize_and_resample_band_array, *)
(* on arrays of any small shape and for every pair of resolutions.         *)

\* The largest height and width of the array given to the first call.
MaxDim == 7

\* How many calls are chained.
MaxResamplings == 2

\* The pixel sizes of the Sentinel-2 bands.
Resolutions == {10, 20, 60}

InitResample ==
    /\ OnlyResampling
    /\ im \in {[shape |-> <<h, w>>, filter |-> "none"] :
                  h \in 1..MaxDim, w \in 1..MaxDim}
    /\ resamplings = <<>>

\* Up to MaxResamplings calls are chained.
CanResample ==
    /\ im # <<>>
    /\ Len(resamplings) < MaxResamplings

\* Image.resize returns an array when the size asked for has at least one
\* row and one column; the calls that ask for less return no array and are
\* not followed.
Returned(out) == out.shape[1] > 0 /\ out.shape[2] > 0

\* resample_band_array(im, in_res, out_res)
Resample(in_res, out_res) ==
    LET out == resample_band_array(im, in_res, out_res)
    IN /\ CanResample
       /\ Returned(out)
       /\ im' = out
       /\ resamplings' = Append(resamplings,
              [fn |-> "resample_band_array", in_res |-> in_res,
               out_res |-> out_res, arr |-> im.shape, ret |-> out.shape])
       /\ UNCHANGED notResampleVars

\* resize_and_resample_band_array(im, ij_bbox, in_res, out_res), im being
\* the pixels of the window ij_bbox that starts at (row_start, col_start).
ResizeAndResample(in_res, out_res, row_start, col_start) ==
    LET ij_bbox == <<row_start, col_start,
                     row_start + im.shape[1] - 1, col_start + im.shape[2] - 1>>
        out == resize_and_resample_band_array(im, ij_bbox, in_res, out_res)
    IN /\ CanResample
       /\ Returned(out)
       /\ im' = out
       /\ resamplings' = Append(resamplings,
              [fn |-> "resize_and_resample_band_array", in_res |-> in_res,
               out_res |-> out_res, arr |-> im.shape, ret |-> out.shape])
       /\ UNCHANGED notResampleVars

NextResample ==
    \E in_res \in Resolutions, out_res \in Resolutions :
        \/ Resample(in_res, out_res)
        \/ \E start \in {0, 3} :
              ResizeAndResample(in_res, out_res, start, start)

SpecResample == InitResample /\ [][NextResample]_vars

----------------------------------------------------------------------------
(* Claims about the resampling functions.                                  *)

\* round(n * in_res / out_res), halves going to the even neighbour as
\* Python's round does.
Round(n, in_res, out_res) ==
    LET f == (n * in_res) \div out_res
        twice == 2 * ((n * in_res) % out_res)
    IN IF twice > out_res THEN f + 1
       ELSE IF twice < out_res THEN f
       ELSE IF f % 2 = 0 THEN f ELSE f + 1

\* C11: the array returned by a resampling has round(dimension * scale) rows
\* and columns, scale = in_res / out_res, for every resolution pair.
C11_RoundedDims ==
    \A k \in DOMAIN resamplings :
        LET r == resamplings[k]
        IN r.ret = <<Round(r.arr[1], r.in_res, r.out_res),
                     Round(r.arr[2], r.in_res, r.out_res)>>

\* Two calls in a row of resample_band_array, the second with the inverse
\* scale of the first.
RoundTrip(k) ==
    /\ k + 1 \in DOMAIN resamplings
    /\ resamplings[k].fn = "resample_band_array"
    /\ resamplings[k + 1].fn = "resample_band_array"
    /\ resamplings[k].in_res * resamplings[k + 1].in_res
          = resamplings[k].out_res * resamplings[k + 1].out_res

\* C12 as stated: resampling by s then by 1/s gives back the shape of the
\* array, whatever the shape.
C12_RoundTripAnyShape ==
    \A k \in DOMAIN resamplings :
        RoundTrip(k) => resamplings[k + 1].ret = resamplings[k].arr

\* n * in_res / out_res is an integer.
Divides(n, in_res, out_res) == (n * in_res) % out_res = 0

\* C12 amended: resampling by s then by 1/s gives back the shape of the
\* array when s >= 1, or when s < 1 and each dimension is a multiple of 1/s.
C12_RoundTripWholePixels ==
    \A k \in DOMAIN resamplings :
        LET r == resamplings[k]
        IN (/\ RoundTrip(k)
            /\ Divides(r.arr[1], r.in_res, r.out_res)
            /\ Divides(r.arr[2], r.in_res, r.out_res))
           => resamplings[k + 1].ret = r.arr

\* An array of 6 rows and 3 columns taken from 20 m to 60 m and back.
C12_Witness ==
    /\ Len(resamplings) = 2
    /\ RoundTrip(1)
    /\ resamplings[1].arr = <<6, 3>>
    /\ resamplings[1].in_res = 20 /\ resamplings[1].out_res = 60
    /\ resamplings[1].ret = <<2, 1>>
    /\ resamplings[2].ret = <<6, 3>>

-----------------------------------------------------------------------------
(* Claims about the windows and the errors of the extraction sessions.     *)

\* C13: every pixel window resolved from a region of interest has
\* row_stop >= row_start and col_stop >= col_start and lies within
\* [0, height - 1] x [0, width - 1] of its raster, wherever the region is.
C13_WindowInvariant ==
    (window # <<>> /\ inputs.ROI # <<>>) =>
        LET w == window[1].ij_bbox
        IN /\ w[3] >= w[1]
           /\ w[4] >= w[2]
           /\ w[1] \in 0..window[1].height - 1
           /\ w[3] \in 0..window[1].height - 1
           /\ w[2] \in 0..window[1].width - 1
           /\ w[4] \in 0..window[1].width - 1

\* The bounding box of the region of interest and the extent of the granule
\* have no point in common.
Disjoint(ROI) ==
    /\ ROI # <<>>
    /\ \/ ROI[1][3] < OriginX
       \/ ROI[1][1] > OriginX + Extent
       \/ ROI[1][4] < OriginY - Extent
       \/ ROI[1][2] > OriginY

\* C14: for a region of interest whose bounding box does not intersect the
\* extent of the product, no reader resolves a window or completes the
\* extraction: the session ends with GeometryError.
C14_OutsideRaisesGeometryError ==
    Disjoint(request.ROI) =>
        /\ window = <<>>
        /\ pc \notin {"extracted", "EmptyWindow"}

\* The output resolution of a finished session.
OutRes == IF product_type \in S2Readers THEN inputs.out_resolution
          ELSE GRS_res

\* The upper left corner of the session's window, in the product's CRS.
WindowStart ==
    <<OriginX + window[1].ij_bbox[2] * data[1].in_res,
      OriginY - window[1].ij_bbox[1] * data[1].in_res>>

Ascending(s) == \A i \in 1..Len(s) - 1 : s[i + 1] > s[i]
Descending(s) == \A i \in 1..Len(s) - 1 : s[i + 1] < s[i]

\* C15: the coordinates of a finished extraction are at the pixel centres:
\* x ascends from window_x_start + resolution/2, y descends from
\* window_y_start - resolution/2, and len(x), len(y) are the width and the
\* height of the extracted arrays.
C15_PixelCentres ==
    (pc = "extracted" /\ data # <<>>) =>
        LET x == intermediate_data.x[1]
            y == intermediate_data.y[1]
        IN /\ Ascending(x) /\ Descending(y)
           /\ x # <<>> /\ x[1] = WindowStart[1] + OutRes \div 2
           /\ y # <<>> /\ y[1] = WindowStart[2] - OutRes \div 2
           /\ \A k \in DOMAIN data :
                 data[k].shape = <<Len(y), Len(x)>>

\* The steps of the grid of an assembled product with at least two columns
\* and two rows: <<x[1] - x[0], y[0] - y[1]>>.
GridSteps ==
    <<intermediate_data.x[1][2] - intermediate_data.x[1][1],
      intermediate_data.y[1][1] - intermediate_data.y[1][2]>>

TwoByTwo ==
    /\ pc = "assembled"
    /\ Len(intermediate_data.x[1]) >= 2
    /\ Len(intermediate_data.y[1]) >= 2

LengthsMatch ==
    \A k \in DOMAIN data :
        data[k].shape = <<Len(intermediate_data.y[1]),
                          Len(intermediate_data.x[1])>>

AuthorizedSet ==
    IF product_type = "S2_ESA" THEN {None, 10, 20, 60} ELSE {None, 10, 20}

\* An output or a processing resolution outside the authorized set was given.
GivenOutside ==
    \/ request.out_resolution \notin AuthorizedSet
    \/ builder # <<>> /\ builder[1].processing_resolution \notin AuthorizedSet

\* C17: for an output or processing resolution outside the authorized set of
\* the format, the constructor of the reader and ProductBuilder.extract_data
\* raise InputError before any band is read.
C17_UnauthorizedResolution ==
    (product_type \in S2Readers /\ GivenOutside
        /\ pc \notin {"new", "builder"}) =>
        /\ pc = "InputError"
        /\ data = <<>>
        /\ window = <<>>
        /\ handles = {}

\* extract_data refused a processing resolution that S2_ESA authorizes and
\* S2_THEIA does not, given with an authorized output resolution.
C17_Witness ==
    /\ pc = "InputError"
    /\ product_type = "S2_THEIA"
    /\ builder # <<>>
    /\ builder[1].processing_resolution = 60
    /\ request.out_resolution = 10

\* extract_bands has returned or raised.
Exited ==
    pc \in {"extracted", "assembled", "ValueError", "InputError",
            "GeometryError", "ProductError"}

\* C18: every product handle opened during extract_bands is released on
\* every exit path, the paths that raise InputError or GeometryError
\* included: no state after extract_bands has an open handle.
C18_HandlesReleased == Exited => handles = {}

\* The band is in the product the session reads.
InProduct(band) ==
    CASE product_type = "S2_ESA" ->
            \E k \in 1..3 : band \in Values(ESASubdatasets[k].descriptions)
      [] product_type = "S2_THEIA" -> band \in Values(THEIABands)
      [] product_type = "C2RCC" -> band \notin C2RCCUnavailable
      [] OTHER -> TRUE

AbsentRequested ==
    \E band \in Values(request.requested_bands) : ~InProduct(band)

\* C19: when a requested band is absent from the product, the extraction
\* fails with ProductError: it never completes, with or without a dataset,
\* and fails with no other error once the reader is constructed.
C19_AbsentBandFails ==
    (AbsentRequested /\ Exited /\ ~(pc = "InputError" /\ inputs = <<>>)) =>
        pc = "ProductError"

-----------------------------------------------------------------------------
(* ProductBuilder (sisppeo/builders.py) called method by method, and the    *)
(* recipes create_l3algoproducts and create_l3maskproducts of               *)
(* sisppeo/main.py.  A field that is None is <<>>, a field that is set is   *)
(* <<its value>>; a str is the sequence of its characters.                  *)

MaxCalls == 6

\* Two product types, as str.
S2_GRS == <<"S", "2", "_", "G", "R", "S">>
S2_THEIA == <<"S", "2", "_", "T", "H", "E", "I", "A">>
ProductTypes == {S2_GRS, S2_THEIA}

\* algo_catalog and mask_catalog: the names registered, with the bands the
\* algorithm or mask asks for.
algo_catalog == [ndwi |-> {"B3", "B8"}, ndvi |-> {"B4", "B8"}]
mask_catalog == [waterdetect |-> {"B3", "B8", "B11", "B12"},
                 s2cloudless |-> {"B1", "B2", "B4", "B8"}]

\* The lists of names and of bands given to the builder.
LstAlgos == {<<>>, <<"ndwi">>, <<"ndvi", "ndwi">>}
LstMasks == {<<"waterdetect">>, <<"s2cloudless", "waterdetect">>}
LstBands == {<<"B4">>, <<"B8", "B3">>}

\* ProductBuilder.__init__
ProductBuilder ==
    [bands |-> <<>>, algos |-> <<>>, masks |-> <<>>, product_type |-> <<>>,
     requested_bands |-> <<>>, out_resolution |-> <<>>,
     extracted_ds |-> <<>>, results |-> <<>>, products |-> <<>>]

\* What a call did: the builder after it, the exception it raised ("" if
\* none) and what it returned (<<>> for None).
Outcome(self, exc, ret) == [self |-> self, exc |-> exc, ret |-> ret]

\* The union of the requested bands of the objects made.
RECURSIVE union_of_bands(_)
union_of_bands(objects) ==
    IF objects = <<>> THEN {}
    ELSE Head(objects).requested_bands \cup union_of_bands(Tail(objects))

\* set_reader(lst_band)
set_reader(self, lst_band) ==
    Outcome([self EXCEPT !.bands = <<lst_band>>,
                         !.requested_bands = <<Values(lst_band)>>], "", <<>>)

\* set_algos(product_type, lst_algo): "for i, algo_name in
\* enumerate(lst_algo)" with algo_catalog[algo_name](product_type=...); the
\* requested bands are a tuple made from a set, taken here as the set.
set_algos(self, type, lst_algo) ==
    IF \E i \in DOMAIN lst_algo : lst_algo[i] \notin DOMAIN algo_catalog
    THEN Outcome(self, "KeyError", <<>>)
    ELSE LET algos == [i \in DOMAIN lst_algo |->
                         [name |-> lst_algo[i],
                          requested_bands |-> algo_catalog[lst_algo[i]]]]
         IN Outcome([self EXCEPT !.algos = <<algos>>,
                                 !.requested_bands = <<union_of_bands(algos)>>],
                    "", <<>>)

\* set_masks(lst_masks, product_type)
set_masks(self, lst_masks, type) ==
    IF \E i \in DOMAIN lst_masks : lst_masks[i] \notin DOMAIN mask_catalog
    THEN Outcome(self, "KeyError", <<>>)
    ELSE LET masks == [i \in DOMAIN lst_masks |->
                         [name |-> lst_masks[i],
                          requested_bands |-> mask_catalog[lst_masks[i]]]]
         IN Outcome([self EXCEPT !.masks = <<masks>>,
                                 !.requested_bands = <<union_of_bands(masks)>>],
                    "", <<>>)

\* extract_data(product_type, input_product, **kwargs) with kwargs
\* requested_bands (<<>> when not given) and out_resolution;
\* kwargs.pop('requested_bands') raises KeyError when it is needed and not
\* given.  self._out_resolution is set before the reader runs, and the
\* reader may raise.
staged_extract_data(self, type, kwargs, reader_raises) ==
    IF self.requested_bands = <<>> /\ kwargs.requested_bands = <<>>
    THEN Outcome(self, "KeyError", <<>>)
    ELSE LET bands == IF self.requested_bands # <<>>
                      THEN self.requested_bands[1]
                      ELSE Values(kwargs.requested_bands[1])
             with_res == [self EXCEPT !.out_resolution =
                            IF kwargs.out_resolution = None THEN <<>>
                            ELSE <<kwargs.out_resolution>>]
         IN IF reader_raises
            THEN Outcome(with_res, "ProductError", <<>>)
            ELSE Outcome([with_res EXCEPT !.extracted_ds =
                            <<[bands |-> bands,
                               product_type |-> type]>>], "", <<>>)

\* compute_reader(): {'bands': xr.Dataset(self._extracted_ds)}, and
\* xr.Dataset(None) is an empty dataset.
compute_reader(self) ==
    Outcome([self EXCEPT !.results =
               <<<<[key |-> "bands",
                    dataset |-> IF self.extracted_ds = <<>> THEN {}
                                ELSE self.extracted_ds[1].bands]>>>>],
            "", <<>>)

\* The loop shared by compute_algos and compute_masks: attributes of
\* self._extracted_ds are read first, then the objects are run on their
\* bands of the dataset.
compute(self, objects) ==
    IF self.extracted_ds = <<>> THEN Outcome(self, "AttributeError", <<>>)
    ELSE IF objects = <<>> THEN Outcome(self, "TypeError", <<>>)
    ELSE IF \E i \in DOMAIN objects[1] :
               ~(objects[1][i].requested_bands
                    \subseteq self.extracted_ds[1].bands)
    THEN Outcome(self, "KeyError", <<>>)
    ELSE Outcome([self EXCEPT !.results =
                    <<[i \in DOMAIN objects[1] |->
                         [key |-> objects[1][i].name,
                          dataset |-> objects[1][i].requested_bands]]>>],
                 "", <<>>)

\* compute_algos()
compute_algos(self) == compute(self, self.algos)

\* compute_masks()
staged_compute_masks(self) == compute(self, self.masks)

\* create_l3products(product_type): the namedtuple over the keys of
\* self._results is made first, then the class is chosen from the fields
\* that are set, then each result is wrapped, with crs and metadata taken
\* from self._extracted_ds.
create_l3products(self, type) ==
    LET product == IF self.algos # <<>> THEN "L3AlgoProduct"
                   ELSE IF self.masks # <<>> THEN "L3MaskProduct"
                   ELSE IF self.bands # <<>> THEN "L3ReaderProduct"
                   ELSE "InputError"
    IN IF self.results = <<>> THEN Outcome(self, "TypeError", <<>>)
       ELSE IF product = "InputError" THEN Outcome(self, "InputError", <<>>)
       ELSE IF self.results[1] # <<>> /\ self.extracted_ds = <<>>
       THEN Outcome(self, "TypeError", <<>>)
       ELSE Outcome([self EXCEPT !.products =
                       <<[i \in DOMAIN self.results[1] |->
                            [class |-> product,
                             title |-> self.results[1][i].key,
                             product_type |-> type,
                             masked |-> FALSE]]>>], "", <<>>)

\* mask_l3algosproduct(masks_types, masks): "for l3_algo in self._products"
mask_l3algosproduct(self) ==
    IF self.products = <<>> THEN Outcome(self, "TypeError", <<>>)
    ELSE Outcome([self EXCEPT !.products =
                    <<[i \in DOMAIN self.products[1] |->
                         [self.products[1][i] EXCEPT !.masked = TRUE]]>>],
                 "", <<>>)

\* get_products with self._results left as it is.
get_products_keeping_results(self) ==
    Outcome([ProductBuilder EXCEPT !.results = self.results], "",
            self.products)
\* get_products(): returns the products and resets every field.
get_products(self) == Outcome(ProductBuilder, "", self.products)

\* create_l3algoproducts(input_product, product_type, lst_algo): the recipe
\* on a new builder.  Its first call is
\* builder.set_algos(lst_algo, product_type, ...), on a method declared as
\* set_algos(self, product_type, lst_algo, ...).
create_l3algoproducts(type, lst_algo, reader_raises) ==
    LET kwargs == [requested_bands |-> <<>>, out_resolution |-> None]
        a == set_algos(ProductBuilder, lst_algo, type)
        b == staged_extract_data(a.self, type, kwargs, reader_raises)
        c == compute_algos(b.self)
        d == create_l3products(c.self, type)
    IN IF a.exc # "" THEN a ELSE IF b.exc # "" THEN b
       ELSE IF c.exc # "" THEN c ELSE IF d.exc # "" THEN d
       ELSE get_products(d.self)

\* create_l3maskproducts(input_product, product_type, lst_mask)
create_l3maskproducts(type, lst_mask, reader_raises) ==
    LET kwargs == [requested_bands |-> <<>>, out_resolution |-> None]
        a == set_masks(ProductBuilder, lst_mask, type)
        b == staged_extract_data(a.self, type, kwargs, reader_raises)
        c == staged_compute_masks(b.self)
        d == create_l3products(c.self, type)
    IN IF a.exc # "" THEN a ELSE IF b.exc # "" THEN b
       ELSE IF c.exc # "" THEN c ELSE IF d.exc # "" THEN d
       ELSE get_products(d.self)

InitStaged ==
    /\ OnlyStaged
    /\ pb = ProductBuilder
    /\ pb_call = <<>>
    /\ pb_ncalls = 0

\* One call of a method on the builder.
Call(method, o) ==
    /\ pb_ncalls < MaxCalls
    /\ pb' = o.self
    /\ pb_call' = <<[method |-> method, exc |-> o.exc, ret |-> o.ret]>>
    /\ pb_ncalls' = pb_ncalls + 1
    /\ UNCHANGED notStagedVars

CallSetReader ==
    \E lst_band \in LstBands :
        Call("set_reader", set_reader(pb, lst_band))

CallSetAlgos ==
    \E type \in ProductTypes, lst_algo \in LstAlgos :
        Call("set_algos", set_algos(pb, type, lst_algo))

CallSetMasks ==
    \E type \in ProductTypes, lst_masks \in LstMasks :
        Call("set_masks", set_masks(pb, lst_masks, type))

CallExtractData ==
    \E type \in ProductTypes,
       bands_kw \in {<<>>} \cup {<<lst>> : lst \in LstBands},
       out_resolution \in {None, 10},
       reader_raises \in BOOLEAN :
        Call("extract_data", staged_extract_data(pb, type,
                                 [requested_bands |-> bands_kw,
                                  out_resolution |-> out_resolution],
                                 reader_raises))

CallComputeReader == Call("compute_reader", compute_reader(pb))

CallComputeAlgos == Call("compute_algos", compute_algos(pb))

CallComputeMasks == Call("compute_masks", staged_compute_masks(pb))

CallCreateL3Products ==
    \E type \in ProductTypes :
        Call("create_l3products", create_l3products(pb, type))

CallMaskL3AlgosProduct ==
    Call("mask_l3algosproduct", mask_l3algosproduct(pb))

CallGetProducts == Call("get_products", get_products(pb))

NextStaged ==
    \/ CallSetReader
    \/ CallSetAlgos
    \/ CallSetMasks
    \/ CallExtractData
    \/ CallComputeReader
    \/ CallComputeAlgos
    \/ CallComputeMasks
    \/ CallCreateL3Products
    \/ CallMaskL3AlgosProduct
    \/ CallGetProducts

SpecStaged == InitStaged /\ [][NextStaged]_vars

-----------------------------------------------------------------------------
(* CoordinatesMixin (sisppeo/utils/products.py): xy and index on the grid   *)
(* of a product.  Coordinates are in metres and pixel sizes are even, so    *)
(* that res / 2 is a whole number.                                          *)

MaxSide == 3

\* The pixel sizes of the product grids, and the centre of their first pixel.
GridResolutions == {10, 20}
GridX0 == 605
GridY0 == 1195

\* The grids of the products: x ascending and y descending, both at the
\* centres of the pixels, with 1 to MaxSide columns and rows.
ProductGrids ==
    {[x |-> [k \in 1..nx |-> GridX0 + (k - 1) * r],
      y |-> [k \in 1..ny |-> GridY0 - (k - 1) * r],
      pixel |-> r] : nx \in 1..MaxSide, ny \in 1..MaxSide,
                     r \in GridResolutions}

\* The pixels and the points the methods are called with: in the grid, on
\* its edges and around it.
GivenPixels == (-1..MaxSide) \X (-1..MaxSide)
GivenXs == {GridX0 - 15 + 5 * k : k \in 0..(4 * MaxSide + 4)}
GivenYs == {GridY0 + 15 - 5 * k : k \in 0..(4 * MaxSide + 4)}

\* bisect.bisect_right(a, v) and bisect.bisect_left(a, v) on a sorted list
bisect_right(a, v) == Cardinality({k \in DOMAIN a : a[k] <= v})
bisect_left(a, v) == Cardinality({k \in DOMAIN a : a[k] < v})

\* res: self.dataset.x.values[1] - self.dataset.x.values[0]
product_res(g) ==
    IF Len(g.x) < 2 THEN [exc |-> "IndexError", ret |-> 0]
    ELSE [exc |-> "", ret |-> g.x[2] - g.x[1]]

\* bounds: (xmin, ymin, xmax, ymax), half a pixel around the centres
product_bounds(g) ==
    LET r == product_res(g).ret
    IN <<MinOf(Values(g.x)) - r \div 2, MinOf(Values(g.y)) - r \div 2,
         MaxOf(Values(g.x)) + r \div 2, MaxOf(Values(g.y)) + r \div 2>>

\* xy(i, j)
xy(g, i, j) ==
    IF 0 <= i /\ i < Len(g.y) /\ 0 <= j /\ j < Len(g.x)
    THEN [exc |-> "", ret |-> <<g.x[j + 1], g.y[i + 1]>>]
    ELSE [exc |-> "InputError", ret |-> <<>>]

\* index(x, y): self.bounds, then self.res, are read first; sorted(y + res/2)
\* is the list of the upper edges of the rows from the last row to the first.
product_index(g, x, y) ==
    LET r == product_res(g).ret
        b == product_bounds(g)
        lefts == [k \in DOMAIN g.x |-> g.x[k] - r \div 2]
        tops == [k \in DOMAIN g.y |-> g.y[Len(g.y) + 1 - k] + r \div 2]
    IN IF product_res(g).exc # "" THEN [exc |-> "IndexError", ret |-> <<>>]
       ELSE IF b[1] <= x /\ x <= b[3] /\ b[2] <= y /\ y <= b[4]
       THEN [exc |-> "",
             ret |-> <<Len(g.y) - 1 - bisect_left(tops, y),
                       bisect_right(lefts, x) - 1>>]
       ELSE [exc |-> "InputError", ret |-> <<>>]

InitCoords ==
    /\ OnlyCoords
    /\ \E g \in ProductGrids : grid = <<g>>
    /\ coord_call = <<>>

\* product.xy(i, j)
CallXY ==
    /\ coord_call = <<>>
    /\ \E p \in GivenPixels :
          coord_call' = <<[fn |-> "xy", args |-> p,
                           out |-> xy(grid[1], p[1], p[2])]>>
    /\ UNCHANGED <<grid, notCoordVars>>

\* product.index(x, y)
CallIndex ==
    /\ coord_call = <<>>
    /\ \E x \in GivenXs, y \in GivenYs :
          coord_call' = <<[fn |-> "index", args |-> <<x, y>>,
                           out |-> product_index(grid[1], x, y)]>>
    /\ UNCHANGED <<grid, notCoordVars>>

\* product.index(*product.xy(i, j)), after an xy that returned
CallIndexOfXY ==
    /\ Len(coord_call) = 1
    /\ coord_call[1].fn = "xy"
    /\ coord_call[1].out.exc = ""
    /\ coord_call' = Append(coord_call,
          [fn |-> "index", args |-> coord_call[1].out.ret,
           out |-> product_index(grid[1], coord_call[1].out.ret[1],
                                 coord_call[1].out.ret[2])])
    /\ UNCHANGED <<grid, notCoordVars>>

NextCoords ==
    \/ CallXY
    \/ CallIndex
    \/ CallIndexOfXY

SpecCoords == InitCoords /\ [][NextCoords]_vars

(* Claims about the coordinates of a product.                               *)

\* The last call and, for an index call, whether its point is within the
\* bounds of the grid: half a pixel around the centres, edges included.
LastCoordCall == coord_call[Len(coord_call)]

WithinBounds(p) ==
    LET g == grid[1]
        half == g.pixel \div 2
    IN /\ g.x[1] - half <= p[1] /\ p[1] <= g.x[Len(g.x)] + half
       /\ g.y[Len(g.y)] - half <= p[2] /\ p[2] <= g.y[1] + half

ValidPixel(p) ==
    /\ 0 <= p[1] /\ p[1] < Len(grid[1].y)
    /\ 0 <= p[2] /\ p[2] < Len(grid[1].x)

\* C29: on any product grid, index is a left inverse of xy: for every valid
\* pixel (i, j), index(*xy(i, j)) == (i, j); for every (x, y) within bounds,
\* index returns a valid pixel; outside the bounds index raises InputError,
\* and xy raises InputError for a pixel out of range.
C29_IndexInvertsXY ==
    coord_call # <<>> =>
        /\ LastCoordCall.fn = "xy" =>
              IF ValidPixel(LastCoordCall.args)
              THEN LastCoordCall.out.exc = ""
              ELSE LastCoordCall.out.exc = "InputError"
        /\ Len(coord_call) = 2 =>
              /\ LastCoordCall.out.exc = ""
              /\ LastCoordCall.out.ret = coord_call[1].args
        /\ LastCoordCall.fn = "index" =>
              IF WithinBounds(LastCoordCall.args)
              THEN /\ LastCoordCall.out.exc = ""
                   /\ ValidPixel(LastCoordCall.out.ret)
              ELSE LastCoordCall.out.exc = "InputError"

-----------------------------------------------------------------------------
(* The batch calls of sisppeo/main.py: one ray task per input product,     *)
(* ray.get over the tasks, then the saving of the products.                *)

MaxProducts == 3

BatchFunctions ==
    {"create_batch_l3algoproducts", "create_batch_l3maskproducts"}

\* create_algotimeseries calls create_batch_l3algoproducts, and
\* create_masktimeseries create_batch_l3maskproducts, without save.
SeriesFunctions == {"create_algotimeseries", "create_masktimeseries"}

\* The functions whose tasks run create_l3maskproducts; the tasks of the
\* others run create_l3algoproducts.
MaskFunctions == {"create_batch_l3maskproducts", "create_masktimeseries"}

\* psutil.cpu_count(logical=False) and the argument num_cpus.
Cores == {None, 2, 4}
Caps == {None, 1, 3}

\* The n input products of a call, and a geom.
InputProducts(n) == [i \in 1..n |-> <<"product", i>>]
Geoms == {None, 7}

\* series_to_batch(args, n): one product type and one geom per product.
series_to_batch(type, geom, n) ==
    [product_types |-> [i \in 1..n |-> type],
     lst_geom |-> IF geom # None THEN <<[i \in 1..n |-> geom]>> ELSE <<>>]

\* The arguments of a call on n input products: lst is lst_mask or
\* lst_algo, and lst_geom is None (<<>>) or has one geom per input product.
BatchArgs(fn, n) ==
    {[input_products |-> InputProducts(n),
      product_types |-> series_to_batch(S2_THEIA, g, n).product_types,
      lst |-> IF fn \in MaskFunctions
              THEN <<"waterdetect", "s2cloudless">>
              ELSE <<"ndwi", "ndvi">>,
      lst_geom |-> series_to_batch(S2_THEIA, g, n).lst_geom,
      num_cpus |-> cap] : g \in Geoms, cap \in Caps}

\* A call: its arguments and its argument save, and the input products
\* whose reader will raise.
InitBatch ==
    /\ OnlyBatch
    /\ batch_fn \in BatchFunctions \cup SeriesFunctions
    /\ save \in BOOLEAN
    /\ cpu_count \in Cores
    /\ \E n \in 1..MaxProducts :
          /\ outcome \in [1..n -> {"done", "failed"}]
          /\ batch_args \in BatchArgs(batch_fn, n)
    /\ pool = <<>>
    /\ submitted = <<>>
    /\ futures = <<>>
    /\ results = <<>>
    /\ ended = <<>>
    /\ batch_res = <<>>
    /\ lst_ts = <<>>
    /\ saved = {}
    /\ batch_pc = "called"

\* min(val for val in cpus if val is not None), the user cap left out.
min_without_cap(cpus) == MinOf({cpus[1], cpus[2]} \ {None})
\* min(val for val in cpus if val is not None)
min_not_none(cpus) == MinOf(Values(cpus) \ {None})

\* zip(product_types, input_products, ..., lst_geom, lst_res)
zip(product_types, input_products, geoms) ==
    LET n == MinOf({Len(product_types), Len(input_products), Len(geoms)})
    IN [i \in 1..n |-> [product_type |-> product_types[i],
                        input_product |-> input_products[i],
                        geom |-> geoms[i]]]

\* ray.init(num_cpus=num_cpus) and
\* futures.append(_mp_l3algoproducts.remote(...)) for every input product
Submit ==
    LET cpus == <<cpu_count, Len(batch_args.input_products),
                  batch_args.num_cpus>>
        lst_geom == IF batch_args.lst_geom = <<>>
                    THEN [i \in DOMAIN batch_args.input_products |-> None]
                    ELSE batch_args.lst_geom[1]
    IN /\ batch_pc = "called"
       /\ pool' = <<min_not_none(cpus)>>
       /\ submitted' = zip(batch_args.product_types,
                           batch_args.input_products, lst_geom)
       /\ futures' = [i \in DOMAIN submitted' |-> "pending"]
       /\ results' = [i \in DOMAIN submitted' |-> <<>>]
       /\ batch_pc' = "ray.get"
       /\ UNCHANGED <<batch_fn, save, cpu_count, outcome, batch_args, ended,
                      batch_res, lst_ts, saved, notBatchVars>>

Running == {i \in DOMAIN futures : futures[i] = "running"}

\* ray starts a task when one of its num_cpus workers is free.
TaskStarts(i) ==
    /\ i \in DOMAIN futures
    /\ futures[i] = "pending"
    /\ Cardinality(Running) < pool[1]
    /\ futures' = [futures EXCEPT ![i] = "running"]
    /\ UNCHANGED <<batch_fn, save, cpu_count, outcome, batch_args, pool,
                   submitted, results, ended, batch_res, lst_ts, saved,
                   batch_pc, notBatchVars>>

\* _mp_l3algoproducts / _mp_l3maskproducts: the task calls
\* create_l3algoproducts / create_l3maskproducts on its input product; the
\* products it returns are those of that input product.
products_of(fn, task, lst, reader_raises) ==
    LET o == IF fn \in MaskFunctions
             THEN create_l3maskproducts(task.product_type, lst, reader_raises)
             ELSE create_l3algoproducts(task.product_type, lst, reader_raises)
    IN IF o.exc # "" \/ o.ret = <<>> THEN o
       ELSE [o EXCEPT !.ret =
               <<[k \in DOMAIN o.ret[1] |->
                    [class |-> o.ret[1][k].class,
                     title |-> o.ret[1][k].title,
                     input_product |-> task.input_product]]>>]

\* One task ends, with its products or with the exception of its call.  It
\* saves nothing: the single-product function is called with its default
\* save.
TaskEnds(i) ==
    /\ i \in DOMAIN futures
    /\ futures[i] = "running"
    /\ LET o == products_of(batch_fn, submitted[i], batch_args.lst,
                            outcome[i] = "failed")
       IN /\ futures' = [futures EXCEPT
                           ![i] = IF o.exc = "" THEN "done" ELSE "failed"]
          /\ results' = IF o.exc = ""
                        THEN [results EXCEPT ![i] = <<o.ret[1]>>]
                        ELSE results
    /\ ended' = Append(ended, i)
    /\ UNCHANGED <<batch_fn, save, cpu_count, outcome, batch_args, pool,
                   submitted, batch_res, lst_ts, saved, batch_pc,
                   notBatchVars>>

\* ray.wait-like: what ray.get would do if it took the first finished task.
ray_get_first(refs) ==
    IF \E i \in DOMAIN refs : refs[i] = "done" THEN "return"
    ELSE IF \E i \in DOMAIN refs : refs[i] = "failed" THEN "raise"
    ELSE "block"
\* ray.get(futures): it blocks until the tasks have ended and returns their
\* results; it raises the exception of a failed task, once it has one.
ray_get(refs) ==
    IF \E i \in DOMAIN refs : refs[i] = "failed" THEN "raise"
    ELSE IF \A i \in DOMAIN refs : refs[i] = "done" THEN "return"
    ELSE "block"

\* res = ray.get(futures), returning the results in the order of futures;
\* then ray.shutdown().
RayGetReturns ==
    /\ batch_pc = "ray.get"
    /\ ray_get(futures) = "return"
    /\ batch_res' = <<[i \in DOMAIN futures |->
                         IF results[i] = <<>> THEN <<>> ELSE results[i][1]]>>
    /\ batch_pc' = IF save /\ batch_fn \in BatchFunctions
                   THEN "saving" ELSE "returned"
    /\ UNCHANGED <<batch_fn, save, cpu_count, outcome, batch_args, pool,
                   submitted, futures, results, ended, lst_ts, saved,
                   notBatchVars>>

\* res = ray.get(futures), raising: the call ends there, whatever the other
\* tasks do afterwards.
RayGetRaises ==
    /\ batch_pc = "ray.get"
    /\ ray_get(futures) = "raise"
    /\ batch_pc' = "raised"
    /\ UNCHANGED <<batch_fn, save, cpu_count, outcome, batch_args, pool,
                   submitted, futures, results, ended, batch_res, lst_ts,
                   saved, notBatchVars>>

\* if save: product.save(filename) for the products of the next item of res
SaveProducts ==
    /\ batch_pc = "saving"
    /\ \E i \in DOMAIN batch_res[1] :
          /\ i \notin saved
          /\ \A j \in 1..i - 1 : j \in saved
          /\ saved' = saved \cup {i}
    /\ UNCHANGED <<batch_fn, save, cpu_count, outcome, batch_args, pool,
                   submitted, futures, results, ended, batch_res, lst_ts,
                   batch_pc, notBatchVars>>

\* return res
Return ==
    /\ batch_pc = "saving"
    /\ saved = DOMAIN batch_res[1]
    /\ batch_pc' = "returned"
    /\ UNCHANGED <<batch_fn, save, cpu_count, outcome, batch_args, pool,
                   submitted, futures, results, ended, batch_res, lst_ts,
                   saved, notBatchVars>>

\* zip(*res)
zip_star(res) ==
    IF res = <<>> THEN <<>>
    ELSE LET n == MinOf({Len(res[i]) : i \in DOMAIN res})
         IN [k \in 1..n |-> [i \in DOMAIN res |-> res[i][k]]]

\* create_algotimeseries and create_masktimeseries after their batch call:
\* lst_ts = [TimeSeries.from_l3products(time_series)
\*           for time_series in zip(*res)], saved if save, and returned.
FromL3Products ==
    /\ batch_fn \in SeriesFunctions
    /\ batch_pc = "returned"
    /\ lst_ts' = <<[k \in DOMAIN zip_star(batch_res[1]) |->
                      [products |-> zip_star(batch_res[1])[k],
                       saved |-> save]]>>
    /\ batch_pc' = "series"
    /\ UNCHANGED <<batch_fn, save, cpu_count, outcome, batch_args, pool,
                   submitted, futures, results, ended, batch_res, saved,
                   notBatchVars>>

NextBatch ==
    \/ Submit
    \/ \E i \in 1..MaxProducts : TaskStarts(i)
    \/ \E i \in 1..MaxProducts : TaskEnds(i)
    \/ RayGetReturns
    \/ RayGetRaises
    \/ SaveProducts
    \/ Return
    \/ FromL3Products

SpecBatch == InitBatch /\ [][NextBatch]_vars

-----------------------------------------------------------------------------
(* Claims about the batch calls.                                           *)

\* C20: a batch call returns only once all its tasks have ended; if any
\* task fails the call fails: it returns no list and saves no product, even
\* of the input products whose tasks succeeded.
C20_BatchAllOrNothing ==
    /\ batch_pc \in {"saving", "returned"} =>
          /\ DOMAIN futures = DOMAIN outcome
          /\ \A i \in DOMAIN futures : futures[i] = "done"
    /\ (\E i \in DOMAIN futures : futures[i] = "failed") =>
          /\ batch_pc \in {"ray.get", "raised"}
          /\ batch_res = <<>>
          /\ saved = {}
    /\ saved # {} => batch_pc \in {"saving", "returned"}

\* A call with save that failed on one task after another task had succeeded.
C20_Witness ==
    /\ batch_pc = "raised"
    /\ save
    /\ \E i, j \in DOMAIN futures :
          futures[i] = "done" /\ futures[j] = "failed"

\* C21: a batch call submits exactly one task per input product and returns
\* one entry per input product, in input order, entry i holding the products
\* of input_products[i] in the order of lst_algo (or lst_mask), whatever the
\* order in which the tasks ended; a time series built from it has one
\* TimeSeries per algo, each over the input products in input order.  A call
\* on input products that can all be read does return.
C21_OneEntryPerProduct ==
    LET inputs_ == batch_args.input_products
        lst == batch_args.lst
    IN /\ batch_pc # "called" =>
             /\ DOMAIN submitted = DOMAIN inputs_
             /\ \A i \in DOMAIN submitted :
                   submitted[i].input_product = inputs_[i]
       /\ batch_res # <<>> =>
             /\ DOMAIN batch_res[1] = DOMAIN inputs_
             /\ \A i \in DOMAIN inputs_ :
                   /\ DOMAIN batch_res[1][i] = DOMAIN lst
                   /\ \A k \in DOMAIN lst :
                         /\ batch_res[1][i][k].title = lst[k]
                         /\ batch_res[1][i][k].input_product = inputs_[i]
       /\ lst_ts # <<>> =>
             /\ DOMAIN lst_ts[1] = DOMAIN lst
             /\ \A k \in DOMAIN lst :
                   /\ DOMAIN lst_ts[1][k].products = DOMAIN inputs_
                   /\ \A i \in DOMAIN inputs_ :
                         /\ lst_ts[1][k].products[i].title = lst[k]
                         /\ lst_ts[1][k].products[i].input_product = inputs_[i]
       /\ (\A i \in DOMAIN outcome : outcome[i] = "done") =>
             batch_pc # "raised"

\* C22: the worker-pool size of a batch call is the least of the physical
\* core count, the number of input products and num_cpus, those that are
\* None left out; no more tasks than that run at once.
C22_PoolSize ==
    pool # <<>> =>
        LET terms == {cpu_count, Len(batch_args.input_products),
                      batch_args.num_cpus} \ {None}
        IN /\ pool[1] \in terms
           /\ \A t \in terms : pool[1] <= t
           /\ Cardinality(Running) <= pool[1]

\* A call capped by num_cpus below the number of input products, on a host
\* whose core count is unknown, with every worker busy and a task waiting.
C22_Witness ==
    /\ pool # <<>>
    /\ cpu_count = None
    /\ batch_args.num_cpus = pool[1]
    /\ pool[1] < Len(batch_args.input_products)
    /\ Cardinality(Running) = pool[1]
    /\ \E i \in DOMAIN futures : futures[i] = "pending"

\* C28: for S2_ESA and S2_THEIA and authorized inputs, _set_resolution
\* returns (out_resolution, processing_resolution) either both None or both
\* set with processing_resolution >= out_resolution: an unset out_resolution
\* takes the processing resolution, and a processing resolution that is
\* unset or smaller than out_resolution is replaced by out_resolution.
\* The builder keeps the first as self._out_resolution and gives the second
\* to the reader.
C28_ResolutionsOrdered ==
    (product_type \in S2Readers /\ builder # <<>> /\ pc = "constructed") =>
        LET o_res == builder[1].out_resolution
            p_res == inputs.out_resolution
            out_resolution == request.out_resolution
            processing_resolution == builder[1].processing_resolution
        IN /\ \/ o_res = None /\ p_res = None
              \/ o_res # None /\ p_res # None /\ p_res >= o_res
           /\ out_resolution = None => o_res = processing_resolution
           /\ out_resolution # None => o_res = out_resolution
           /\ (/\ out_resolution # None
               /\ \/ processing_resolution = None
                  \/ processing_resolution < out_resolution)
              => p_res = out_resolution
           /\ (/\ processing_resolution # None
               /\ processing_resolution >= out_resolution)
              => p_res = processing_resolution

\* A reader constructed by extract_data(out_resolution=20,
\* processing_resolution=10).
C28_Witness ==
    /\ product_type \in S2Readers
    /\ builder # <<>>
    /\ pc = "constructed"
    /\ request.out_resolution = 20
    /\ builder[1].processing_resolution = 10
    /\ inputs.out_resolution = 20

\* C26: for a product type other than S2_ESA_* and S2_THEIA, out_resolution
\* and processing_resolution are ignored: the masks are computed as when
\* both are None, on the grid of the extracted dataset.
C26_ResolutionsIgnored ==
    (product_type \notin S2Readers /\ builder # <<>>) =>
        /\ pc # "raised"
        /\ builder[1].results # <<>> =>
              /\ builder[1].results[1].x = intermediate_data.x[1]
              /\ builder[1].results[1].y = intermediate_data.y[1]
              /\ builder[1].results[1].shape = GridShape

\* The native pixel size of a band of the product the session reads.
NativeRes(band) ==
    IF product_type = "S2_ESA"
    THEN LET k == CHOOSE k \in 1..3 :
                     band \in Values(ESASubdatasets[k].descriptions)
         IN ESASubdatasets[k].res
    ELSE theia_res(band)

\* The coarsest native pixel size among the requested bands of the product.
Coarsest ==
    MaxOf({NativeRes(band) : band \in
             {b \in Values(request.requested_bands) : InProduct(b)}})

\* C27: in a S2_ESA or S2_THEIA session the first extracted band is a band
\* of the coarsest native resolution among the requested bands, and the
\* extraction raises InputError when the output resolution is greater than
\* that resolution: no band is extracted then, and the first band is never
\* downsampled.
C27_CoarsestFirst ==
    (/\ product_type \in S2Readers
     /\ \E b \in Values(request.requested_bands) : InProduct(b)) =>
        /\ data # <<>> =>
              /\ data[1].in_res = Coarsest
              /\ inputs.out_resolution <= data[1].in_res
        /\ (/\ pc \notin {"new", "builder", "constructed"}
            /\ inputs # <<>>
            /\ inputs.out_resolution > Coarsest) =>
              /\ data = <<>>
              /\ pc \in {"loop", "InputError", "ProductError"}
              /\ pc = "loop" => intermediate_data.x = <<>>

\* A request for a 10 m band only with out_resolution 20 has failed.
C27_Witness ==
    /\ product_type \in S2Readers
    /\ request.requested_bands = <<"B4">>
    /\ request.out_resolution = 20
    /\ inputs # <<>>
    /\ pc = "InputError"

-----------------------------------------------------------------------------
(* Claims about the staged builder.                                         *)

\* A step that is a call of the method.
Calls(method) ==
    /\ pb_ncalls' = pb_ncalls + 1
    /\ pb_call'[1].method = method

\* C24: get_products returns the products created so far and resets the
\* builder: afterwards every field is None, as in a new builder, so a second
\* get_products returns None and the next recipe starts from nothing.
C24_GetProductsResets ==
    [][Calls("get_products") =>
          /\ pb_call'[1].exc = ""
          /\ pb_call'[1].ret = pb.products
          /\ pb' = ProductBuilder
          /\ (pb_call # <<>> /\ pb_call[1].method = "get_products")
                => pb_call'[1].ret = <<>>]_vars

\* get_products has returned the masked products of a builder that had
\* algorithms, an extracted dataset and results, and the builder is as new.
C24_Witness ==
    /\ pb_call # <<>>
    /\ pb_call[1].method = "get_products"
    /\ pb_call[1].ret # <<>>
    /\ Len(pb_call[1].ret[1]) = 2
    /\ \A i \in 1..2 : /\ pb_call[1].ret[1][i].class = "L3AlgoProduct"
                       /\ pb_call[1].ret[1][i].masked
    /\ pb = ProductBuilder

\* C25: the builder rejects out-of-order calls with an error: compute_reader,
\* compute_algos or compute_masks before extract_data, create_l3products
\* before a compute step, and mask_l3algosproduct before create_l3products
\* raise and store neither results nor products.
C25_OutOfOrderRaises ==
    [][/\ (/\ \/ Calls("compute_reader")
              \/ Calls("compute_algos")
              \/ Calls("compute_masks")
           /\ pb.extracted_ds = <<>>)
          => (pb_call'[1].exc # "" /\ pb' = pb)
       /\ (Calls("create_l3products") /\ pb.results = <<>>)
          => (pb_call'[1].exc # "" /\ pb' = pb)
       /\ (Calls("mask_l3algosproduct") /\ pb.products = <<>>)
          => (pb_call'[1].exc # "" /\ pb' = pb)]_vars

\* C30: create_l3products raises InputError in every builder state where
\* none of algos, masks and bands is set, whatever was called before;
\* otherwise it wraps each result as L3AlgoProduct if algos are set, else
\* L3MaskProduct if masks are set, else L3ReaderProduct.
C30_InputErrorWithoutRecipe ==
    [][Calls("create_l3products") =>
          IF pb.algos = <<>> /\ pb.masks = <<>> /\ pb.bands = <<>>
          THEN pb_call'[1].exc = "InputError" /\ pb' = pb
          ELSE pb_call'[1].exc = "" =>
                  /\ pb'.products # <<>>
                  /\ DOMAIN pb'.products[1] = DOMAIN pb.results[1]
                  /\ \A i \in DOMAIN pb'.products[1] :
                        pb'.products[1][i].class =
                           IF pb.algos # <<>> THEN "L3AlgoProduct"
                           ELSE IF pb.masks # <<>> THEN "L3MaskProduct"
                           ELSE "L3ReaderProduct"]_vars

\* C23: create_l3algoproducts returns one L3AlgoProduct per algorithm of
\* lst_algo, in that order: the task of an input product that can be read
\* ends with these products.
C23_OneProductPerAlgo ==
    batch_fn \notin MaskFunctions =>
        \A i \in DOMAIN futures :
            (futures[i] \in {"done", "failed"} /\ outcome[i] = "done") =>
                /\ futures[i] = "done"
                /\ results[i] # <<>>
                /\ DOMAIN results[i][1] = DOMAIN batch_args.lst
                /\ \A k \in DOMAIN batch_args.lst :
                      /\ results[i][1][k].class = "L3AlgoProduct"
                      /\ results[i][1][k].title = batch_args.lst[k]

====
